---- MODULE Spec2Model ----
(***************************************************************************)
(* Lattera real-time layer.                                                *)
(*                                                                         *)
(*   SpecSocket   : client SocketManager (client/src/utils/socket.ts) and  *)
(*                  the transports it creates through io().                *)
(*   SpecEmit     : SocketManager.emit over connect, disconnect and the     *)
(*                  transport's connect and close.                          *)
(*   SpecService  : client SocketService (client/src/services/              *)
(*                  socketService.ts): handler sets over the manager.       *)
(*   SpecChat     : MainChat message list (client/src/pages/MainChat.tsx): *)
(*                  optimistic send, REST confirmation, socket events.     *)
(*   SpecSend     : the sends of MainChat, their optimistic entries and their  *)
(*                  failures, over loaded lists.                            *)
(*   SpecView     : MainChat message list under 'message:edited' and        *)
(*                  'message:deleted'.                                      *)
(*   SpecMessages : the REST routes of /api/messages (create, edit, delete)  *)
(*                  and their calls of the broadcast layer.                 *)
(*   SpecChats    : POST /api/chats, its lookup and its insert as the two    *)
(*                  steps they are, with requests in flight together.       *)
(*   SpecAuth     : POST /api/auth/register and /api/auth/verify-email.     *)
(*   SpecSession  : POST /api/auth/login, /refresh and /logout over the       *)
(*                  users the registration routes create.                   *)
(*   SpecFeedback : POST and PATCH /api/feedback-requests, the PATCH as the  *)
(*                  read and the save it is made of.                        *)
(*   SpecComposer / SpecComposerFair : the typing signals of the message     *)
(*                  composer; the fair one lets every armed timer fire.     *)
(*   SpecClientTyping : MainChat typing indicator and its expiry timers.    *)
(*   SpecPresence : server session registry and presence tracker.          *)
(*   SpecFanout   : server broadcast fanout over the session registry.      *)
(*   SpecTyping   : server typing coordinator; SpecTypingFair adds that an  *)
(*                  armed expiry timer fires.                               *)
(***************************************************************************)
EXTENDS Integers, Sequences, FiniteSets, TLC

(***************************************************************************)
(* Bounds of the model.                                                    *)
(***************************************************************************)
\* transports io() may create during one run
MaxSockets == 3
\* messages posted during one run, by the current user or by the other participant
MaxMsgs == 2
\* unread counter values tracked per chat
MaxUnread == 2
\* connections the server holds at a time
MaxConns == 3
\* calls of initialize(), of on*() and of the closures they return during one run
MaxCalls == 4
\* 'message:edited' and 'message:deleted' events delivered during one run
MaxViewEvents == 2
\* messages created through POST /api/messages during one run
MaxStored == 1
\* requests to /api/messages during one run
MaxRequests == 2
\* POST /api/chats requests during one run
MaxChatReqs == 2
\* requests to /api/auth during one run
MaxAuthReqs == 3
\* requests to /api/auth/login, /refresh and /logout during one run
MaxSessionReqs == 3
\* changes of the composer's input and sends during one run
MaxComposerOps == 3
\* PATCH /api/feedback-requests/:id requests during one run
MaxPatchReqs == 2
\* emit() calls during one run
MaxEmits == 2
\* typing episodes started per (chat, user) pair during one run
MaxEpisodes == 2

(***************************************************************************)
(* Program constants.                                                      *)
(***************************************************************************)
maxReconnectAttempts == 5
\* edit window of PATCH /api/messages/:messageId: 15 * 60 * 1000 (part_005 524)
fifteenMinutesInMs == 900000
\* delete-for-all window of DELETE /api/messages/:messageId: 24 * 60 * 60 * 1000
\* (part_005 667)
twentyFourHoursInMs == 86400000

VARIABLES
    \* ---- SocketManager fields (socket.ts 18-22)
    socket,                   \* 0 = null, else the id of the transport held
    reconnectAttempts,
    isIntentionalDisconnect,
    \* ---- environment of the manager
    accessToken,              \* tokenStorage.getAccessToken() is truthy
    nsock,                    \* transports created so far by io()
    tstate,                   \* transport id -> "none" | "connecting" | "connected" | "closed"
    tfails,                   \* transport id -> failed attempts of the library's own retry loop
    handlers,                 \* transport id -> times setupEventHandlers registered on it
    timers,                   \* pending setTimeout(() => this.connect(), reconnectDelay)
    \* ---- observation of the calls
    ret,                      \* outcome of the last connect(): "none" | "existing" | "throw" | "created"
    lastCaller,               \* last call made by the application: "none" | "connect" | "disconnect"
    gaveUp,                   \* the connect_error handler reached the cap since the last caller connect()
    consecFails,              \* connect_error events since the last caller connect() / 'connect' event
    afterCap,                 \* the transport held was created by a caller connect() made after a give-up
    \* ---- observation of SocketManager.emit
    nemit,                    \* emit() calls so far
    emitResult,               \* outcome of the last emit(): "none" | "sent" | "warned"
    \* ---- SocketService (socketService.ts 56-60)
    handlerSets,              \* kind -> the handlers in the set of that kind
    listeners,                \* transport id -> listeners per event initialize() registered on it
    ncalls,                   \* initialize(), on*() and closure calls so far
    dropped,                  \* kind -> handlers in the set at the last disconnect(), not registered since
    invoked,                  \* the dispatch of the last inbound event: the event and its payload, the
                              \* set it went to, the handlers called, times each, their argument
    removed,                  \* kind -> handlers deleted by their closure, not registered since
    unsubscribed,             \* <<kind, handler>> of the closure the last step called, else NoClosure
    \* ---- MainChat state (MainChat.tsx 21-30)
    messages,                 \* the message list of the view, oldest first
    selectedChatId,           \* 0 = null
    unread,                   \* chat id -> chat.unreadCount[user.id]
    lastEvent,                \* the message number of the 'message:new' the last step delivered, else 0
    typingUsers,              \* the users shown as typing in the selected chat
    typingTimeoutRef,         \* userId -> expiry timers armed for the user (the map holds the last one)
    typingFired,              \* the user whose expiry timer the last step fired, else "none"
    nview,                    \* 'message:edited' and 'message:deleted' events delivered so far
    viewEvent,                \* the last of them: type, messageId, content, editedAt
    \* ---- REST routes of /api/messages
    messageStore,             \* the Message collection: id -> document
    nstored,                  \* documents created so far
    clock,                    \* Date.now()
    nreq,                     \* requests served so far
    restResult,               \* the last request, its response and its broadcast call
    \* ---- POST /api/chats
    chatReqs,                 \* the requests: where each is in the handler, and its response
    \* ---- /api/auth
    userEmails,               \* the emails of the User collection
    registrations,            \* Redis: registration:<email> -> {password, code}
    nauth,                    \* requests served so far
    authResult,               \* the last request and its response
    \* ---- /api/auth/login, /refresh, /logout
    tokenStore,               \* the refresh tokens of the token store
    onlineStatus,             \* setUserStatus: user -> 'online' | 'offline'
    nissued,                  \* refresh tokens generated so far
    revoked,                  \* the tokens generated before a logout of their user
    nsess,                    \* requests served so far
    sessResult,               \* the last request and its response
    \* ---- MessageComposer
    composerMessage,          \* the input of the composer
    composerRef,              \* typingTimeoutRef.current of the composer: a timer id, 0 for null
    composerTimers,           \* the pending timers: [id, chat of the onStopTyping it calls]
    typingSignal,             \* the last emitTyping / emitStopTyping call: <<event, chat>>
    owed,                     \* the chats with a 'user:typing' no 'user:stop-typing' followed
    ncomposer,                \* changes and sends so far
    \* ---- server: /api/feedback-requests (routes/feedback.ts 123-733)
    feedbackStore,            \* the FeedbackRequest document of the message
    patchReqs,                \* request -> the PATCH handler's position and copy
    \* ---- environment of MainChat
    sends,                    \* send number -> the handleSendMessage call in progress
    nsend,                    \* handleSendMessage calls so far
    loads,                    \* chat ids with an api.messages.list request in flight
    nforeign,                 \* messages the other participant has posted so far
    serverMsgs,               \* messages stored and broadcast by POST /api/messages, oldest first
    \* ---- server: Connection Session Manager and Presence Tracker
    sessions,                 \* connectionId -> userId of the live session, or "none"
    status,                   \* userId -> PresenceState.status
    declared,                 \* userId -> status of the last PresenceChanged emitted for the user
    graceTimer,               \* userId -> the grace-window timer is armed
    acceptResult,             \* outcome of the accept() the last step made: "none" | "ok" | "Unauthenticated"
    graceEvent,               \* what the last step did to a grace-window timer: <<kind, userId>>
    \* ---- server: chat membership and Broadcast Fanout
    participants,             \* chatId -> participants of the chat, {} while it does not exist
    delivered,                \* the publish the last step made: its chat and the connections reached
    \* ---- server: Typing Coordinator
    typingStates,             \* <<chatId, userId>> -> TypingState records held for the pair
    expiryTimers,             \* <<chatId, userId>> -> expiry timers armed for the pair
    typingLog,                \* <<chatId, userId>> -> transitions emitted for the pair, oldest first
    typingOp                  \* what the last step of the coordinator did: "none" | "insert" | "refresh" | "stop" | "expire"

socketVars == <<socket, reconnectAttempts, isIntentionalDisconnect, accessToken, nsock,
                tstate, tfails, handlers, timers, ret, lastCaller, gaveUp, consecFails,
                afterCap>>

emitVars == <<nemit, emitResult>>

serviceVars == <<handlerSets, listeners, ncalls, dropped, invoked, removed, unsubscribed>>

chatVars == <<messages, selectedChatId, unread, lastEvent, sends, nsend, nforeign, loads,
              serverMsgs>>

viewVars == <<nview, viewEvent>>
chatRouteVars == <<chatReqs>>
authVars == <<userEmails, registrations, nauth, authResult>>
sessionVars == <<tokenStore, onlineStatus, nissued, revoked, nsess, sessResult>>
feedbackVars == <<feedbackStore, patchReqs>>
composerVars == <<composerMessage, composerRef, composerTimers, typingSignal, owed, ncomposer>>
messageVars == <<messageStore, nstored, clock, nreq, restResult>>

clientTypingVars == <<typingUsers, typingTimeoutRef, typingFired>>

presenceVars == <<sessions, status, declared, graceTimer, acceptResult, graceEvent>>

fanoutVars == <<participants, delivered>>

typingVars == <<typingStates, expiryTimers, typingLog, typingOp>>

vars == <<socketVars, serviceVars, chatVars, clientTypingVars, presenceVars, fanoutVars,
          typingVars, emitVars, viewVars, messageVars, chatRouteVars, authVars,
          sessionVars, composerVars, feedbackVars>>

\* what an action of one component leaves alone
notService == <<chatVars, clientTypingVars, presenceVars, fanoutVars, typingVars,
          emitVars, viewVars, messageVars, chatRouteVars, authVars,
          sessionVars, composerVars, feedbackVars>>
notSocket == <<notService, serviceVars>>
notMainChat == <<socketVars, serviceVars, presenceVars, fanoutVars, typingVars, emitVars,
          viewVars, messageVars, chatRouteVars, authVars, sessionVars,
          composerVars, feedbackVars>>
notChat == <<notMainChat, clientTypingVars>>
notView == <<socketVars, serviceVars, presenceVars, fanoutVars, typingVars, emitVars,
          messageVars, chatRouteVars, authVars, sessionVars, composerVars,
          feedbackVars>>
notMessages == <<socketVars, serviceVars, chatVars, clientTypingVars, presenceVars, fanoutVars,
                typingVars, emitVars, viewVars, chatRouteVars, authVars,
          sessionVars, composerVars, feedbackVars>>
notChatRoute == <<socketVars, serviceVars, chatVars, clientTypingVars, typingVars, emitVars,
                 viewVars, messageVars, authVars, sessionVars,
          composerVars, feedbackVars>>
notAuth == <<socketVars, serviceVars, chatVars, clientTypingVars, presenceVars, fanoutVars,
            typingVars, emitVars, viewVars, messageVars, chatRouteVars,
          sessionVars, composerVars, feedbackVars>>
notSession == <<socketVars, serviceVars, chatVars, clientTypingVars, presenceVars, fanoutVars,
               typingVars, emitVars, viewVars, messageVars, chatRouteVars, authVars,
          composerVars, feedbackVars>>
notFeedback == <<socketVars, serviceVars, chatVars, clientTypingVars, presenceVars,
                fanoutVars, typingVars, emitVars, viewVars, messageVars, chatRouteVars,
                authVars, sessionVars, composerVars>>
notComposer == <<socketVars, serviceVars, presenceVars, fanoutVars, typingVars, emitVars,
                viewVars, messageVars, chatRouteVars, authVars, sessionVars,
          feedbackVars>>
notServer == <<socketVars, serviceVars, chatVars, clientTypingVars, typingVars, emitVars,
          viewVars, messageVars, chatRouteVars, authVars, sessionVars,
          composerVars, feedbackVars>>
notEmit == <<serviceVars, chatVars, clientTypingVars, presenceVars, fanoutVars, typingVars,
          viewVars, messageVars, chatRouteVars, authVars, sessionVars,
          composerVars, feedbackVars>>
notTyping == <<socketVars, serviceVars, chatVars, clientTypingVars, presenceVars, fanoutVars,
          emitVars, viewVars, messageVars, chatRouteVars, authVars,
          sessionVars, composerVars, feedbackVars>>

SockIds == 1..MaxSockets

Live(ts) == {i \in SockIds : ts[i] \in {"connecting", "connected"}}

\* this.socket?.connected
isConnected == socket # 0 /\ tstate[socket] = "connected"

InitSocket ==
    /\ socket = 0
    /\ reconnectAttempts = 0
    /\ isIntentionalDisconnect = FALSE
    /\ accessToken = FALSE
    /\ nsock = 0
    /\ tstate = [i \in SockIds |-> "none"]
    /\ tfails = [i \in SockIds |-> 0]
    /\ handlers = [i \in SockIds |-> 0]
    /\ timers = 0
    /\ ret = "none"
    /\ lastCaller = "none"
    /\ gaveUp = FALSE
    /\ consecFails = 0
    /\ afterCap = FALSE

(***************************************************************************)
(* connect(): socket.ts 24-54.  The body is shared by the caller's         *)
(* connect() and by the delayed reconnect armed at line 68.                *)
(***************************************************************************)
\* connect() without the early return of lines 25-27
ConnectBody_NoEarlyReturn ==
    IF ~accessToken
    THEN /\ ret' = "throw"
         /\ UNCHANGED <<socket, isIntentionalDisconnect, nsock, tstate, tfails, handlers>>
    ELSE /\ nsock < MaxSockets
         /\ isIntentionalDisconnect' = FALSE
         /\ nsock' = nsock + 1
         /\ socket' = nsock + 1
         /\ tstate' = [tstate EXCEPT ![nsock + 1] = "connecting"]
         /\ tfails' = [tfails EXCEPT ![nsock + 1] = 0]
         /\ handlers' = [handlers EXCEPT ![nsock + 1] = @ + 1]
         /\ ret' = "created"

\* connect() with line 34 moved before the token test of lines 29-32
ConnectBody_FlagBeforeToken ==
    IF isConnected
    THEN /\ ret' = "existing"
         /\ UNCHANGED <<socket, isIntentionalDisconnect, nsock, tstate, tfails, handlers>>
    ELSE IF ~accessToken
    THEN /\ ret' = "throw"
         /\ isIntentionalDisconnect' = FALSE
         /\ UNCHANGED <<socket, nsock, tstate, tfails, handlers>>
    ELSE /\ nsock < MaxSockets
         /\ isIntentionalDisconnect' = FALSE
         /\ nsock' = nsock + 1
         /\ socket' = nsock + 1
         /\ tstate' = [tstate EXCEPT ![nsock + 1] = "connecting"]
         /\ tfails' = [tfails EXCEPT ![nsock + 1] = 0]
         /\ handlers' = [handlers EXCEPT ![nsock + 1] = @ + 1]
         /\ ret' = "created"

ConnectBody ==
    IF isConnected
    THEN \* 25-27: return this.socket
         /\ ret' = "existing"
         /\ UNCHANGED <<socket, isIntentionalDisconnect, nsock, tstate, tfails, handlers>>
    ELSE IF ~accessToken
    THEN \* 29-32: throw new Error('No authentication token available')
         /\ ret' = "throw"
         /\ UNCHANGED <<socket, isIntentionalDisconnect, nsock, tstate, tfails, handlers>>
    ELSE \* 34-53: new transport, handlers registered on it, previous one left as it is
         /\ nsock < MaxSockets
         /\ isIntentionalDisconnect' = FALSE
         /\ nsock' = nsock + 1
         /\ socket' = nsock + 1
         /\ tstate' = [tstate EXCEPT ![nsock + 1] = "connecting"]
         /\ tfails' = [tfails EXCEPT ![nsock + 1] = 0]
         /\ handlers' = [handlers EXCEPT ![nsock + 1] = @ + 1]
         /\ ret' = "created"

\* socketManager.connect() called from outside the manager
CallerConnect ==
    /\ ConnectBody
    /\ lastCaller' = "connect"
    /\ gaveUp' = (gaveUp /\ ret' = "throw")
    /\ consecFails' = IF ret' = "created" THEN 0 ELSE consecFails
    /\ afterCap' = IF ret' = "created" THEN gaveUp ELSE afterCap
    /\ UNCHANGED <<reconnectAttempts, accessToken, timers>>

\* the application calls socketManager.connect()
Connect ==
    /\ CallerConnect
    /\ UNCHANGED notSocket

\* the callback of setTimeout at 68-70 runs
TimerFire ==
    /\ timers > 0
    /\ timers' = timers - 1
    /\ ConnectBody
    /\ UNCHANGED <<reconnectAttempts, accessToken, lastCaller, gaveUp, consecFails, afterCap>>
    /\ UNCHANGED notSocket

(***************************************************************************)
(* disconnect(): socket.ts 106-112.                                        *)
(***************************************************************************)
CallerDisconnect ==
    /\ IF socket # 0
       THEN /\ isIntentionalDisconnect' = TRUE
            /\ tstate' = [tstate EXCEPT ![socket] = "closed"]
            /\ tfails' = [tfails EXCEPT ![socket] = 0]
            /\ socket' = 0
       ELSE UNCHANGED <<isIntentionalDisconnect, tstate, tfails, socket>>
    /\ lastCaller' = "disconnect"
    /\ UNCHANGED <<reconnectAttempts, accessToken, nsock, handlers, timers, ret,
                   gaveUp, consecFails, afterCap>>

\* the application calls socketManager.disconnect()
Disconnect ==
    /\ CallerDisconnect
    /\ UNCHANGED notSocket

(***************************************************************************)
(* Transport events, delivered to the handlers of setupEventHandlers       *)
(* (socket.ts 56-104).  A handler registered on transport i runs for the   *)
(* events of i whether or not the manager still holds i.                   *)
(***************************************************************************)
\* 'connect' (59-62)
EvConnect(i) ==
    /\ tstate[i] = "connecting"
    /\ tstate' = [tstate EXCEPT ![i] = "connected"]
    /\ tfails' = [tfails EXCEPT ![i] = 0]
    /\ reconnectAttempts' = 0
    /\ consecFails' = 0
    /\ UNCHANGED <<socket, isIntentionalDisconnect, accessToken, nsock, handlers, timers,
                   ret, lastCaller, gaveUp, afterCap>>
    /\ UNCHANGED notSocket

\* 'connect_error' (74-82); the library retries up to reconnectionAttempts (45) times
EvConnectError(i) ==
    /\ tstate[i] = "connecting"
    /\ LET n == reconnectAttempts + 1
           cap == n >= maxReconnectAttempts
           exhausted == tfails[i] >= maxReconnectAttempts
           libTs == IF exhausted THEN [tstate EXCEPT ![i] = "closed"] ELSE tstate
           libFs == [tfails EXCEPT ![i] = IF exhausted THEN 0 ELSE @ + 1]
       IN  /\ reconnectAttempts' = n
           /\ consecFails' = consecFails + 1
           /\ IF cap
              THEN \* 78-81: this.disconnect()
                   /\ gaveUp' = TRUE
                   /\ IF socket # 0
                      THEN /\ isIntentionalDisconnect' = TRUE
                           /\ tstate' = [libTs EXCEPT ![socket] = "closed"]
                           /\ tfails' = [libFs EXCEPT ![socket] = 0]
                           /\ socket' = 0
                      ELSE /\ tstate' = libTs
                           /\ tfails' = libFs
                           /\ UNCHANGED <<isIntentionalDisconnect, socket>>
              ELSE /\ tstate' = libTs
                   /\ tfails' = libFs
                   /\ UNCHANGED <<isIntentionalDisconnect, socket, gaveUp>>
    /\ UNCHANGED <<accessToken, nsock, handlers, timers, ret, lastCaller, afterCap>>
    /\ UNCHANGED notSocket

\* 'disconnect' with reason 'io server disconnect' (64-72): the library does not retry
EvServerDisconnect(i) ==
    /\ tstate[i] = "connected"
    /\ tstate' = [tstate EXCEPT ![i] = "closed"]
    /\ timers' = IF ~isIntentionalDisconnect THEN timers + 1 ELSE timers
    /\ UNCHANGED <<socket, reconnectAttempts, isIntentionalDisconnect, accessToken, nsock,
                   tfails, handlers, ret, lastCaller, gaveUp, consecFails, afterCap>>
    /\ UNCHANGED notSocket

\* 'disconnect' with another reason (transport close, ping timeout): the library
\* reconnects by itself (reconnection: true, 44), the handler at 64-72 arms nothing
EvTransportClose(i) ==
    /\ tstate[i] = "connected"
    /\ tstate' = [tstate EXCEPT ![i] = "connecting"]
    /\ UNCHANGED <<socket, reconnectAttempts, isIntentionalDisconnect, accessToken, nsock,
                   tfails, handlers, timers, ret, lastCaller, gaveUp, consecFails, afterCap>>
    /\ UNCHANGED notSocket

\* login / logout stores or clears the access token read at line 29
SetToken ==
    /\ accessToken' = ~accessToken
    /\ UNCHANGED <<socket, reconnectAttempts, isIntentionalDisconnect, nsock, tstate,
                   tfails, handlers, timers, ret, lastCaller, gaveUp, consecFails, afterCap>>
    /\ UNCHANGED notSocket

NextSocket ==
    \/ Connect
    \/ TimerFire
    \/ Disconnect
    \/ \E i \in SockIds : EvConnect(i)
    \/ \E i \in SockIds : EvConnectError(i)
    \/ \E i \in SockIds : EvServerDisconnect(i)
    \/ \E i \in SockIds : EvTransportClose(i)
    \/ SetToken

(***************************************************************************)
(* Claims about the SocketManager.                                         *)
(***************************************************************************)
Connecting == {i \in SockIds : tstate[i] = "connecting"}

\* C3: once the connect_error handler has reached the cap of maxReconnectAttempts
\* failures, and until the caller connects again, the manager holds no socket, is
\* terminally disconnected and nothing attempts a connection any more: no transport
\* it created is connecting or connected.
C3_CapIsTerminal ==
    gaveUp => /\ socket = 0
              /\ isIntentionalDisconnect
              /\ Live(tstate) = {}

\* C4: a connection opened by a caller connect() after a give-up tolerates
\* maxReconnectAttempts consecutive failures again: the manager gives up on it only
\* when that many connect_error events have been seen since that connect().
C4_ConnectResetsCounter ==
    [][(afterCap /\ ~gaveUp /\ gaveUp') => consecFails' >= maxReconnectAttempts]_vars

\* C5: after the caller's disconnect(), and until the caller's next connect(), the
\* manager holds no socket: a reconnect scheduled before the disconnect() creates none.
C5_DisconnectCancelsReconnect ==
    lastCaller = "disconnect" => socket = 0

\* C6: at most one reconnect attempt, a pending timer or a connecting transport, is
\* in flight.
C6_OneAttemptInFlight ==
    timers + Cardinality(Connecting) <= 1

\* C7: at most one transport created by the manager is connecting or connected.
C7_SinglePhysicalConnection ==
    Cardinality(Live(tstate)) <= 1

\* C8: connect() while the socket held is connected returns it and changes nothing:
\* no transport is created, no handler is registered, reconnectAttempts and the
\* intentional-disconnect flag keep their values.
C8_ConnectIdempotent ==
    [][(Connect /\ isConnected) =>
          /\ ret' = "existing"
          /\ UNCHANGED <<socket, nsock, tstate, tfails, handlers, timers,
                         reconnectAttempts, isIntentionalDisconnect>>]_vars

C8_Witness ==
    /\ lastCaller = "connect"
    /\ ret = "existing"
    /\ isConnected
    /\ nsock = 1

\* C9: connect() with no access token stored, the socket held not being connected,
\* throws and changes nothing: no transport is created and socket, reconnectAttempts
\* and the intentional-disconnect flag keep their values.
C9_ConnectWithoutToken ==
    [][(Connect /\ ~isConnected /\ ~accessToken) =>
          /\ ret' = "throw"
          /\ UNCHANGED <<socket, nsock, tstate, tfails, handlers, timers,
                         reconnectAttempts, isIntentionalDisconnect>>]_vars

C9_Witness ==
    /\ lastCaller = "connect"
    /\ ret = "throw"
    /\ ~accessToken
    /\ socket = 0
    /\ isIntentionalDisconnect
    /\ nsock = 1

(***************************************************************************)
(* MainChat: the message list and what changes it.                         *)
(***************************************************************************)
ChatIds == {1, 2}
Me == "me"
Other == "other"
\* what the user may have typed into the composer
Raw == {"hi", " hi", " "}

\* String.prototype.trim: message.trim() of the composer (ChatList.tsx 227, 232) and
\* content?.trim() of POST /api/messages
Trim(c) == IF c = " hi" THEN "hi" ELSE IF c = " " THEN "" ELSE c

TempId(t) == <<"temp", t>>
RealId(n) == <<"msg", n>>

Range(q) == {q[i] : i \in 1..Len(q)}
Count(q, id) == Cardinality({i \in 1..Len(q) : q[i].id = id})
Has(q, id) == \E i \in 1..Len(q) : q[i].id = id

NoSend == [tempId |-> 0, chatId |-> 0, content |-> "", stage |-> "none", realId |-> 0]

\* the users 'user:typing' events name
Peers == {Other, "peer2", "peer3"}

InitClientTyping ==
    /\ typingUsers = {}
    /\ typingTimeoutRef = [u \in Peers |-> 0]
    /\ typingFired = "none"

InitChat ==
    /\ messages = <<>>
    /\ selectedChatId = 0
    /\ unread = [c \in ChatIds |-> 0]
    /\ lastEvent = 0
    /\ sends = [k \in 1..MaxMsgs |-> NoSend]
    /\ nsend = 0
    /\ nforeign = 0
    /\ loads = {}
    /\ serverMsgs = <<>>

\* handleChatSelect (75-84); loadMessages is left in flight. A change of
\* selectedChatId re-runs the socket effect, whose cleanup (307-318) clears the
\* typing timers.
ChatSelect(c) ==
    /\ selectedChatId' = c
    /\ messages' = <<>>
    /\ loads' = loads \cup {c}
    /\ typingUsers' = {}
    /\ typingTimeoutRef' = IF c # selectedChatId
                            THEN [u \in Peers |-> 0]
                            ELSE typingTimeoutRef
    /\ typingFired' = "none"
    /\ UNCHANGED <<unread, sends, nsend, nforeign, serverMsgs>>
    /\ lastEvent' = 0
    /\ UNCHANGED notMainChat

\* what GET /api/messages returns for chat c, as loadMessages stores it (57-58)
ServerList(c) ==
    LET P(m) == m.chatId = c
        q == SelectSeq(serverMsgs, P)
    IN  [i \in 1..Len(q) |->
            [id |-> q[i].id, chatId |-> q[i].chatId, senderId |-> q[i].senderId,
             content |-> q[i].content, editedAt |-> 0, named |-> TRUE]]

\* loadMessages, offset 0, after the await (51-64)
LoadResolve(c) ==
    /\ c \in loads
    /\ loads' = loads \ {c}
    /\ messages' = ServerList(c)
    /\ UNCHANGED <<selectedChatId, unread, sends, nsend, nforeign, serverMsgs>>
    /\ lastEvent' = 0
    /\ UNCHANGED notChat

\* loadMessages, the request failing (65-67)
LoadReject(c) ==
    /\ c \in loads
    /\ loads' = loads \ {c}
    /\ UNCHANGED <<messages, selectedChatId, unread, sends, nsend, nforeign, serverMsgs>>
    /\ lastEvent' = 0
    /\ UNCHANGED notChat

\* `temp-${Date.now()}` (96).  The composer lets one send run at a time (isSending,
\* ChatList.tsx 227-244), so two sends are a network round trip apart and never read
\* the same millisecond: the n-th send reads the n-th distinct clock value.
DateNow == nsend + 1

\* isSending of the composer (ChatList.tsx 170, 229, 243)
isSending == \E k \in 1..MaxMsgs : sends[k].stage \in {"posted", "stored"}

\* handleSend of the composer (ChatList.tsx 226-232), then handleSendMessage up to
\* the first await (92-113, 137)
Send(raw) ==
    /\ Trim(raw) # ""
    /\ ~isSending
    /\ selectedChatId # 0
    /\ nsend + nforeign < MaxMsgs
    /\ nsend' = nsend + 1
    /\ messages' = Append(messages,
                     [id |-> TempId(DateNow), chatId |-> selectedChatId,
                      senderId |-> Me, content |-> Trim(raw), editedAt |-> 0,
                      named |-> TRUE])
    /\ sends' = [sends EXCEPT ![nsend + 1] =
                     [tempId |-> DateNow, chatId |-> selectedChatId,
                      content |-> Trim(raw), stage |-> "posted", realId |-> 0]]
    /\ lastEvent' = 0
    /\ UNCHANGED <<selectedChatId, unread, nforeign, loads, serverMsgs>>
    /\ UNCHANGED notChat

\* POST /api/messages of the server: Message.create, then broadcastNewMessage
StoreMessage(chatId, senderId, content) ==
    Append(serverMsgs, [id |-> RealId(Len(serverMsgs) + 1), chatId |-> chatId,
                        senderId |-> senderId, content |-> Trim(content)])

ServerStore(k) ==
    /\ sends[k].stage = "posted"
    /\ serverMsgs' = StoreMessage(sends[k].chatId, Me, sends[k].content)
    /\ sends' = [sends EXCEPT ![k].stage = "stored", ![k].realId = Len(serverMsgs) + 1]
    /\ UNCHANGED <<messages, selectedChatId, unread, nsend, nforeign, loads>>
    /\ lastEvent' = 0
    /\ UNCHANGED notChat

\* the other participant posts a message
ForeignMessage(c, content) ==
    /\ Trim(content) # ""
    /\ nsend + nforeign < MaxMsgs
    /\ nforeign' = nforeign + 1
    /\ serverMsgs' = StoreMessage(c, Other, content)
    /\ UNCHANGED <<messages, selectedChatId, unread, sends, nsend, loads>>
    /\ lastEvent' = 0
    /\ UNCHANGED notChat

\* prev.map((m) => m.id === tempId ? {...response.data, sender} : m)  (143-156)
Confirmed(prev, tempId, data) ==
    [i \in 1..Len(prev) |->
        IF prev[i].id = TempId(tempId)
        THEN [id |-> data.id, chatId |-> data.chatId, senderId |-> data.senderId,
              content |-> data.content, editedAt |-> 0, named |-> TRUE]
        ELSE prev[i]]

\* handleSendMessage after api.messages.send resolved (137-171)
SendResolve(k) ==
    /\ sends[k].stage = "stored"
    /\ sends' = [sends EXCEPT ![k].stage = "resolved"]
    /\ messages' = Confirmed(messages, sends[k].tempId, serverMsgs[sends[k].realId])
    /\ UNCHANGED <<selectedChatId, unread, nsend, nforeign, loads, serverMsgs>>
    /\ lastEvent' = 0
    /\ UNCHANGED notChat

\* a catch that leaves the list as it is
WithoutTemp_Keep(prev, tempId) == prev

\* prev.filter((m) => m.id !== tempId)  (132, 175)
WithoutTemp(prev, tempId) ==
    LET P(m) == m.id # TempId(tempId) IN SelectSeq(prev, P)

\* handleSendMessage, api.messages.send rejecting (172-176): the request or its
\* response was lost, or the server refused it.  A failing media upload (119-135) ends
\* the send with the same filter before the message is posted.
SendReject(k) ==
    /\ sends[k].stage \in {"posted", "stored"}
    /\ sends' = [sends EXCEPT ![k].stage = "rejected"]
    /\ messages' = WithoutTemp(messages, sends[k].tempId)
    /\ UNCHANGED <<selectedChatId, unread, nsend, nforeign, loads, serverMsgs>>
    /\ lastEvent' = 0
    /\ UNCHANGED notChat

\* setMessages of the onNewMessage handler (205-219)
WithNew(prev, m) ==
    IF Has(prev, m.id)
    THEN prev
    ELSE Append(prev, [id |-> m.id, chatId |-> m.chatId, senderId |-> m.senderId,
                       content |-> m.content, editedAt |-> 0, named |-> FALSE])

\* 'message:new' for a stored message reaches the onNewMessage handler (203-243);
\* the fanout may deliver the same event more than once.  Of setChats (221-241) the
\* unread counter of the message's chat is kept, the chat list being loaded.
OnNewMessage(m) ==
    /\ m.senderId # Me => unread[m.chatId] < MaxUnread
    /\ messages' = WithNew(messages, m)
    /\ unread' = IF m.senderId # Me
                 THEN [unread EXCEPT ![m.chatId] = @ + 1]
                 ELSE unread
    /\ UNCHANGED <<selectedChatId, sends, nsend, nforeign, loads, serverMsgs>>
    /\ lastEvent' = m.id[2]
    /\ UNCHANGED notChat

\* the socket delivers one of the 'message:new' events the server has broadcast
MessageNew == \E m \in Range(serverMsgs) : OnNewMessage(m)

NextChat ==
    \/ \E c \in ChatIds : ChatSelect(c)
    \/ \E c \in ChatIds : LoadResolve(c)
    \/ \E c \in ChatIds : LoadReject(c)
    \/ \E raw \in Raw : Send(raw)
    \/ \E k \in 1..MaxMsgs : ServerStore(k)
    \/ \E c \in ChatIds, raw \in Raw : ForeignMessage(c, raw)
    \/ \E k \in 1..MaxMsgs : SendResolve(k)
    \/ \E k \in 1..MaxMsgs : SendReject(k)
    \/ MessageNew

\* the sends of MainChat over loaded lists, without the socket's deliveries
NextSend ==
    \/ \E c \in ChatIds : ChatSelect(c)
    \/ \E c \in ChatIds : LoadResolve(c)
    \/ \E raw \in Raw : Send(raw)
    \/ \E k \in 1..MaxMsgs : ServerStore(k)
    \/ \E c \in ChatIds, raw \in Raw : ForeignMessage(c, raw)
    \/ \E k \in 1..MaxMsgs : SendResolve(k)
    \/ \E k \in 1..MaxMsgs : SendReject(k)


(***************************************************************************)
(* MainChat under 'message:edited' and 'message:deleted' (293-305).        *)
(***************************************************************************)
NoViewEvent == [type |-> "none", messageId |-> <<"none", 0>>, content |-> "", editedAt |-> 0]

\* the data of the events: a stored message, or one that never was; the new content
\* and the time of the edit
EditedData == {[type |-> "edited", messageId |-> RealId(n), content |-> "hi!", editedAt |-> 1] :
                  n \in 1..MaxMsgs}
DeletedData == {[type |-> "deleted", messageId |-> RealId(n), content |-> "", editedAt |-> 0] :
                   n \in 1..MaxMsgs}

InitView ==
    /\ nview = 0
    /\ viewEvent = NoViewEvent

\* a map that rewrites every entry
Edited_All(prev, data) ==
    [i \in 1..Len(prev) |-> [prev[i] EXCEPT !.content = data.content, !.editedAt = data.editedAt]]

\* prev.map((m) => m.id === data.messageId ? {...m, content, editedAt} : m)  (294-300)
Edited(prev, data) ==
    [i \in 1..Len(prev) |->
        IF prev[i].id = data.messageId
        THEN [prev[i] EXCEPT !.content = data.content, !.editedAt = data.editedAt]
        ELSE prev[i]]

\* a filter that keeps the message it should drop
Deleted_Inverted(prev, data) ==
    LET P(m) == m.id = data.messageId
    IN  SelectSeq(prev, P)

\* prev.filter((m) => m.id !== data.messageId)  (304)
Deleted(prev, data) ==
    LET P(m) == m.id # data.messageId
    IN  SelectSeq(prev, P)

\* 'message:edited' reaches the onMessageEdited handler
OnMessageEdited(data) ==
    /\ nview < MaxViewEvents
    /\ nview' = nview + 1
    /\ viewEvent' = data
    /\ messages' = Edited(messages, data)
    /\ lastEvent' = 0
    /\ UNCHANGED <<selectedChatId, unread, sends, nsend, nforeign, loads, serverMsgs>>
    /\ UNCHANGED clientTypingVars
    /\ UNCHANGED notView

\* 'message:deleted' reaches the onMessageDeleted handler
OnMessageDeleted(data) ==
    /\ nview < MaxViewEvents
    /\ nview' = nview + 1
    /\ viewEvent' = data
    /\ messages' = Deleted(messages, data)
    /\ lastEvent' = 0
    /\ UNCHANGED <<selectedChatId, unread, sends, nsend, nforeign, loads, serverMsgs>>
    /\ UNCHANGED clientTypingVars
    /\ UNCHANGED notView

NextView ==
    \/ \E c \in ChatIds : ChatSelect(c)
    \/ \E c \in ChatIds : LoadResolve(c)
    \/ \E c \in ChatIds, raw \in Raw : ForeignMessage(c, raw)
    \/ \E data \in EditedData : OnMessageEdited(data)
    \/ \E data \in DeletedData : OnMessageDeleted(data)

(***************************************************************************)
(* MessageComposer (ChatList.tsx 150-260) with handleTyping and            *)
(* handleStopTyping of MainChat (181-191).  MainChat renders the composer  *)
(* while a chat is selected and keeps it when another chat is selected.    *)
(***************************************************************************)
\* the values of the input
Inputs == {"", "h"}
NoSignal == <<"none", 0>>
\* the timers setTimeout can arm: one per change of the input, calling the
\* onStopTyping of a chat
ComposerTimerSet == [id : 1..MaxComposerOps, chat : ChatIds]

InitComposer ==
    /\ composerMessage = ""
    /\ composerRef = 0
    /\ composerTimers = {}
    /\ typingSignal = NoSignal
    /\ owed = {}
    /\ ncomposer = 0

\* if (typingTimeoutRef.current) clearTimeout(typingTimeoutRef.current)  (176-178)
ClearTimeout(pending, ref) == {t \in pending : t.id # ref}

\* handleMessageChange(value) (173-188); onTyping and onStopTyping are handleTyping and
\* handleStopTyping of the render, of the chat selected now
HandleMessageChange(value) ==
    /\ selectedChatId # 0
    /\ ncomposer < MaxComposerOps
    /\ ncomposer' = ncomposer + 1
    /\ composerMessage' = value
    /\ IF value # ""
       THEN /\ typingSignal' = <<"user:typing", selectedChatId>>
            /\ owed' = owed \cup {selectedChatId}
            /\ composerRef' = ncomposer + 1
            /\ composerTimers' = ClearTimeout(composerTimers, composerRef)
                                    \cup {[id |-> ncomposer + 1, chat |-> selectedChatId]}
       ELSE /\ typingSignal' = <<"user:stop-typing", selectedChatId>>
            /\ owed' = owed \ {selectedChatId}
            /\ composerRef' = composerRef
            /\ composerTimers' = ClearTimeout(composerTimers, composerRef)
    /\ UNCHANGED <<chatVars, clientTypingVars>>
    /\ UNCHANGED notComposer

\* the 3000 ms timer fires: onStopTyping of the render that armed it (183-185)
ComposerTimeout(t) ==
    /\ t \in composerTimers
    /\ composerTimers' = composerTimers \ {t}
    /\ typingSignal' = <<"user:stop-typing", t.chat>>
    /\ owed' = owed \ {t.chat}
    /\ UNCHANGED <<composerMessage, composerRef, ncomposer>>
    /\ UNCHANGED <<chatVars, clientTypingVars>>
    /\ UNCHANGED notComposer

\* handleSend (226-245): onStopTyping, then onSendMessage and the input cleared; the
\* timer is left as it is.  onSendMessage is handleSendMessage, the Send of SpecSend.
HandleSend ==
    /\ selectedChatId # 0
    /\ composerMessage # ""
    /\ ncomposer < MaxComposerOps
    /\ ncomposer' = ncomposer + 1
    /\ typingSignal' = <<"user:stop-typing", selectedChatId>>
    /\ owed' = owed \ {selectedChatId}
    /\ composerMessage' = ""
    /\ UNCHANGED <<composerRef, composerTimers>>
    /\ UNCHANGED <<chatVars, clientTypingVars>>
    /\ UNCHANGED notComposer

NextComposer ==
    \/ \E c \in ChatIds : ChatSelect(c)
    \/ \E value \in Inputs : HandleMessageChange(value)
    \/ \E t \in ComposerTimerSet : ComposerTimeout(t)
    \/ HandleSend

(***************************************************************************)
(* SocketManager.emit (socket.ts 122-128).                                 *)
(***************************************************************************)
\* the access token is stored at login, before the service is used
Login ==
    /\ ~accessToken
    /\ SetToken

InitEmit ==
    /\ nemit = 0
    /\ emitResult = "none"

\* emit that hands the event to the socket whatever its state
Emit_Unguarded ==
    /\ nemit < MaxEmits
    /\ nemit' = nemit + 1
    /\ emitResult' = "sent"
    /\ UNCHANGED socketVars
    /\ UNCHANGED notEmit

\* emit(event, data): socket.emit when this.socket?.connected, else console.warn
Emit ==
    /\ nemit < MaxEmits
    /\ nemit' = nemit + 1
    /\ emitResult' = IF isConnected THEN "sent" ELSE "warned"
    /\ UNCHANGED socketVars
    /\ UNCHANGED notEmit

NextEmit ==
    \/ Login
    \/ Connect
    \/ Disconnect
    \/ \E i \in SockIds : EvConnect(i)
    \/ \E i \in SockIds : EvTransportClose(i)
    \/ Emit

(***************************************************************************)
(* SocketService (socketService.ts 55-152) over the manager.               *)
(***************************************************************************)
\* messageHandlers, userStatusHandlers, typingHandlers, messageEditedHandlers,
\* messageDeletedHandlers
Kinds == {"message", "userStatus", "typing", "messageEdited", "messageDeleted"}
HandlerIds == {1, 2}

\* the events initialize() listens to, and the set each one is dispatched to
Events == {"message:new", "message:edited", "message:deleted", "user:online",
           "user:offline", "user:typing"}

KindOf(ev) ==
    CASE ev = "message:new" -> "message"
      [] ev = "message:edited" -> "messageEdited"
      [] ev = "message:deleted" -> "messageDeleted"
      [] ev \in {"user:online", "user:offline"} -> "userStatus"
      [] ev = "user:typing" -> "typing"

\* payloads of 'user:online' and 'user:offline' on the wire; the status field may
\* disagree with the event
NoData == [userId |-> "none", status |-> "none", timestamp |-> 0]
StatusPayloads == {[userId |-> Other, status |-> st, timestamp |-> 1] : st \in {"online", "offline"}}

Payloads(ev) == IF KindOf(ev) = "userStatus" THEN StatusPayloads ELSE {NoData}

\* the payload handed on as it came
Normalized_PassThrough(data, st) == data

\* { ...data, status: st } (89-99)
Normalized(data, st) == [data EXCEPT !.status = st]

\* what the listener of ev hands to the handlers, as far as presence goes
Argument(ev, data) ==
    CASE ev = "user:online" -> Normalized(data, "online")
      [] ev = "user:offline" -> Normalized(data, "offline")
      [] OTHER -> data

NoDispatch == [kind |-> "none", handlers |-> {}, times |-> 0, event |-> "none",
               wire |-> NoData, arg |-> NoData]
NoClosure == <<"none", 0>>

InitService ==
    /\ handlerSets = [k \in Kinds |-> {}]
    /\ listeners = [i \in SockIds |-> 0]
    /\ ncalls = 0
    /\ dropped = [k \in Kinds |-> {}]
    /\ invoked = NoDispatch
    /\ removed = [k \in Kinds |-> {}]
    /\ unsubscribed = NoClosure

\* initialize(): connect(), then one listener per event on the socket it returned
ServiceInitialize ==
    /\ ncalls < MaxCalls
    /\ ncalls' = ncalls + 1
    /\ CallerConnect
    /\ listeners' = IF ret' = "throw"
                    THEN listeners
                    ELSE [listeners EXCEPT ![socket'] = @ + 1]
    /\ invoked' = NoDispatch
    /\ unsubscribed' = NoClosure
    /\ UNCHANGED removed
    /\ UNCHANGED <<handlerSets, dropped>>
    /\ UNCHANGED notService

\* disconnect() that forgets the typing handlers
ServiceDisconnect_KeepTyping ==
    /\ CallerDisconnect
    /\ handlerSets' = [k \in Kinds |-> IF k = "typing" THEN handlerSets[k] ELSE {}]
    /\ dropped' = [k \in Kinds |-> dropped[k] \cup handlerSets[k]]
    /\ invoked' = NoDispatch
    /\ unsubscribed' = NoClosure
    /\ UNCHANGED removed
    /\ UNCHANGED <<listeners, ncalls>>
    /\ UNCHANGED notService

\* disconnect() (106-113): the manager's disconnect(), then clear() on the five sets
ServiceDisconnect ==
    /\ CallerDisconnect
    /\ handlerSets' = [k \in Kinds |-> {}]
    /\ dropped' = [k \in Kinds |-> dropped[k] \cup handlerSets[k]]
    /\ invoked' = NoDispatch
    /\ unsubscribed' = NoClosure
    /\ UNCHANGED removed
    /\ UNCHANGED <<listeners, ncalls>>
    /\ UNCHANGED notService

\* onNewMessage, onUserStatus, onTyping, onMessageEdited, onMessageDeleted (115-138)
On(k, h) ==
    /\ ncalls < MaxCalls
    /\ ncalls' = ncalls + 1
    /\ handlerSets' = [handlerSets EXCEPT ![k] = @ \cup {h}]
    /\ dropped' = [dropped EXCEPT ![k] = @ \ {h}]
    /\ removed' = [removed EXCEPT ![k] = @ \ {h}]
    /\ invoked' = NoDispatch
    /\ unsubscribed' = NoClosure
    /\ UNCHANGED listeners
    /\ UNCHANGED socketVars
    /\ UNCHANGED notService

\* a closure that clears the set of its kind
Unsubscribe_ClearsKind(k, h) ==
    /\ h \in handlerSets[k] \cup dropped[k] \cup removed[k]
    /\ ncalls < MaxCalls
    /\ ncalls' = ncalls + 1
    /\ handlerSets' = [handlerSets EXCEPT ![k] = {}]
    /\ removed' = [removed EXCEPT ![k] = @ \cup (handlerSets[k] \cap {h})]
    /\ unsubscribed' = <<k, h>>
    /\ invoked' = NoDispatch
    /\ UNCHANGED <<listeners, dropped>>
    /\ UNCHANGED socketVars
    /\ UNCHANGED notService

\* the closure an on*(h) call on the set of kind k returned: set.delete(h)
Unsubscribe(k, h) ==
    /\ h \in handlerSets[k] \cup dropped[k] \cup removed[k]
    /\ ncalls < MaxCalls
    /\ ncalls' = ncalls + 1
    /\ handlerSets' = [handlerSets EXCEPT ![k] = @ \ {h}]
    /\ removed' = [removed EXCEPT ![k] = @ \cup (handlerSets[k] \cap {h})]
    /\ unsubscribed' = <<k, h>>
    /\ invoked' = NoDispatch
    /\ UNCHANGED <<listeners, dropped>>
    /\ UNCHANGED socketVars
    /\ UNCHANGED notService

\* event ev with payload data arrives on transport i: each listener of the event
\* calls every handler of the set (66-103)
Inbound(i, ev, data) ==
    /\ tstate[i] = "connected"
    /\ listeners[i] > 0
    /\ invoked' = [kind |-> KindOf(ev), handlers |-> handlerSets[KindOf(ev)],
                   times |-> listeners[i], event |-> ev, wire |-> data,
                   arg |-> Argument(ev, data)]
    /\ unsubscribed' = NoClosure
    /\ UNCHANGED removed
    /\ UNCHANGED <<handlerSets, listeners, ncalls, dropped>>
    /\ UNCHANGED socketVars
    /\ UNCHANGED notService

NextService ==
    \/ Login
    \/ \E i \in SockIds : EvConnect(i)
    \/ ServiceInitialize
    \/ ServiceDisconnect
    \/ \E k \in Kinds, h \in HandlerIds : On(k, h)
    \/ \E k \in Kinds, h \in HandlerIds : Unsubscribe(k, h)
    \/ \E i \in SockIds, ev \in Events : \E data \in Payloads(ev) : Inbound(i, ev, data)

(***************************************************************************)
(* MainChat typing indicator (MainChat.tsx 257-291).                       *)
(***************************************************************************)
\* clearTimeout(existingTimeout) when the map holds a timer of the user
Cleared(n) == IF n > 0 THEN n - 1 ELSE n

\* the handler arming a timer without clearing the one the map holds
OnTyping_NoClear(u, c, isTyping) ==
    /\ c = selectedChatId
    /\ IF isTyping
       THEN /\ typingUsers' = typingUsers \cup {u}
            /\ typingTimeoutRef' = [typingTimeoutRef EXCEPT ![u] = @ + 1]
       ELSE /\ typingUsers' = typingUsers \ {u}
            /\ typingTimeoutRef' = [typingTimeoutRef EXCEPT ![u] = Cleared(@)]
    /\ typingFired' = "none"
    /\ lastEvent' = 0
    /\ UNCHANGED <<messages, selectedChatId, unread, sends, nsend, nforeign, loads, serverMsgs>>
    /\ UNCHANGED notMainChat

\* the onTyping handler on 'user:typing' {userId: u, chatId: c, isTyping}; an event
\* for another chat than the selected one returns at once
OnTyping(u, c, isTyping) ==
    /\ c = selectedChatId
    /\ IF isTyping
       THEN /\ typingUsers' = typingUsers \cup {u}
            /\ typingTimeoutRef' = [typingTimeoutRef EXCEPT ![u] = Cleared(@) + 1]
       ELSE /\ typingUsers' = typingUsers \ {u}
            /\ typingTimeoutRef' = [typingTimeoutRef EXCEPT ![u] = Cleared(@)]
    /\ typingFired' = "none"
    /\ lastEvent' = 0
    /\ UNCHANGED <<messages, selectedChatId, unread, sends, nsend, nforeign, loads, serverMsgs>>
    /\ UNCHANGED notMainChat

\* the 5000 ms timer of user u fires (270-277)
TypingTimeout(u) ==
    /\ typingTimeoutRef[u] > 0
    /\ typingUsers' = typingUsers \ {u}
    /\ typingTimeoutRef' = [typingTimeoutRef EXCEPT ![u] = 0]
    /\ typingFired' = u
    /\ lastEvent' = 0
    /\ UNCHANGED <<messages, selectedChatId, unread, sends, nsend, nforeign, loads, serverMsgs>>
    /\ UNCHANGED notMainChat

NextClientTyping ==
    \/ \E c \in ChatIds : ChatSelect(c)
    \/ \E u \in Peers, c \in ChatIds, isTyping \in BOOLEAN : OnTyping(u, c, isTyping)
    \/ \E u \in Peers : TypingTimeout(u)

(***************************************************************************)
(* Server: Connection Session Manager (accept, release) and Presence       *)
(* Tracker (server/src/websocket/socketHandler, set up at index.ts 116),   *)
(* after sections 3, 4.1 and 4.2 of the specification.                     *)
(***************************************************************************)
Users == {"a", "b", "c"}
ConnIds == 1..MaxConns
PChats == {1, 2}

\* what a handshake may carry: the access credential of a user, a credential that
\* does not verify, or none
Credentials == Users \cup {"invalid", "missing"}

\* the user a credential authenticates, "none" when it is missing or invalid
Verify(cred) == IF cred \in Users THEN cred ELSE "none"

SessionsOf(sess, u) == {c \in ConnIds : sess[c] = u}
SessionCount(sess, u) == Cardinality(SessionsOf(sess, u))

NoGraceEvent == <<"none", "none">>
NoDelivery == [chat |-> 0, to |-> {}]

InitPresence ==
    /\ sessions = [c \in ConnIds |-> "none"]
    /\ status = [u \in Users |-> "offline"]
    /\ declared = [u \in Users |-> "offline"]
    /\ graceTimer = [u \in Users |-> FALSE]
    /\ acceptResult = "none"
    /\ graceEvent = NoGraceEvent

InitFanout ==
    /\ participants = [ch \in PChats |-> {}]
    /\ delivered = NoDelivery

\* the status computed as if the session being counted were not yet registered
Recomputed_OffByOne(sess, u) == IF SessionCount(sess, u) > 1 THEN "online" ELSE "offline"

\* PresenceState.status, recomputed from the session count
Recomputed(sess, u) == IF SessionCount(sess, u) > 0 THEN "online" ELSE "offline"

\* accept that leaves a pending offline transition armed
Accept_NoCancel(cred, c) ==
    /\ sessions[c] = "none"
    /\ IF Verify(cred) = "none"
       THEN /\ acceptResult' = "Unauthenticated"
            /\ graceEvent' = NoGraceEvent
            /\ UNCHANGED <<sessions, status, declared, graceTimer>>
       ELSE LET u == Verify(cred)
                sess == [sessions EXCEPT ![c] = u]
            IN  /\ acceptResult' = "ok"
                /\ sessions' = sess
                /\ status' = [status EXCEPT ![u] = Recomputed(sess, u)]
                /\ graceEvent' = NoGraceEvent
                /\ declared' = [declared EXCEPT ![u] = "online"]
                /\ UNCHANGED graceTimer
    /\ delivered' = NoDelivery
    /\ UNCHANGED participants
    /\ UNCHANGED notServer

\* accept that registers the session before it verifies the credential
Accept_RegisterFirst(cred, c) ==
    /\ sessions[c] = "none"
    /\ IF Verify(cred) = "none"
       THEN /\ acceptResult' = "Unauthenticated"
            /\ graceEvent' = NoGraceEvent
            /\ sessions' = [sessions EXCEPT ![c] = cred]
            /\ UNCHANGED <<status, declared, graceTimer>>
       ELSE LET u == Verify(cred)
                sess == [sessions EXCEPT ![c] = u]
            IN  /\ acceptResult' = "ok"
                /\ sessions' = sess
                /\ status' = [status EXCEPT ![u] = Recomputed(sess, u)]
                /\ graceEvent' = IF graceTimer[u] THEN <<"cancelled", u>> ELSE NoGraceEvent
                /\ graceTimer' = [graceTimer EXCEPT ![u] = FALSE]
                /\ declared' = [declared EXCEPT ![u] = "online"]
    /\ delivered' = NoDelivery
    /\ UNCHANGED participants
    /\ UNCHANGED notServer

\* accept(credential) on connection c
Accept(cred, c) ==
    /\ sessions[c] = "none"
    /\ IF Verify(cred) = "none"
       THEN /\ acceptResult' = "Unauthenticated"
            /\ graceEvent' = NoGraceEvent
            /\ UNCHANGED <<sessions, status, declared, graceTimer>>
       ELSE LET u == Verify(cred)
                sess == [sessions EXCEPT ![c] = u]
            IN  /\ acceptResult' = "ok"
                /\ sessions' = sess
                /\ status' = [status EXCEPT ![u] = Recomputed(sess, u)]
                \* first live session: a pending offline is cancelled, and online is
                \* signalled unless the user is still declared online
                /\ graceEvent' = IF graceTimer[u] THEN <<"cancelled", u>> ELSE NoGraceEvent
                /\ graceTimer' = [graceTimer EXCEPT ![u] = FALSE]
                /\ declared' = [declared EXCEPT ![u] = "online"]
    /\ delivered' = NoDelivery
    /\ UNCHANGED participants
    /\ UNCHANGED notServer

\* release(connectionId)
Release(c) ==
    /\ sessions[c] # "none"
    /\ LET u == sessions[c]
           sess == [sessions EXCEPT ![c] = "none"]
       IN  /\ sessions' = sess
           /\ status' = [status EXCEPT ![u] = Recomputed(sess, u)]
           \* the last session of the user: arm the grace-window timer
           /\ graceTimer' = [graceTimer EXCEPT ![u] = (SessionCount(sess, u) = 0)]
           /\ graceEvent' = IF SessionCount(sess, u) = 0 THEN <<"armed", u>> ELSE NoGraceEvent
    /\ delivered' = NoDelivery
    /\ acceptResult' = "none"
    /\ UNCHANGED <<declared, participants>>
    /\ UNCHANGED notServer

\* the grace window of user u elapses
GraceExpire(u) ==
    /\ graceTimer[u]
    /\ graceTimer' = [graceTimer EXCEPT ![u] = FALSE]
    /\ declared' = [declared EXCEPT ![u] = "offline"]
    /\ graceEvent' = <<"expired", u>>
    /\ delivered' = NoDelivery
    /\ acceptResult' = "none"
    /\ UNCHANGED <<sessions, status, participants>>
    /\ UNCHANGED notServer

NextPresence ==
    \/ \E cred \in Credentials, c \in ConnIds : Accept(cred, c)
    \/ \E c \in ConnIds : Release(c)
    \/ \E u \in Users : GraceExpire(u)

(***************************************************************************)
(* Server: chat membership (POST /api/chats) and Broadcast Fanout, after   *)
(* sections 3 and 4.4 of the specification.                                *)
(***************************************************************************)
\* POST /api/chats by u with participantIds [v], served with no other request for the
\* pair in flight: a private chat of the two users is created under a fresh id unless
\* one exists already
CreateChat(ch, u, v) ==
    /\ u # v
    /\ participants[ch] = {}
    /\ \A other \in PChats : participants[other] # {u, v}
    /\ participants' = [participants EXCEPT ![ch] = {u, v}]
    /\ delivered' = NoDelivery
    /\ graceEvent' = NoGraceEvent
    /\ acceptResult' = "none"
    /\ UNCHANGED <<sessions, status, declared, graceTimer>>
    /\ UNCHANGED notServer

\* the connections a publish for chat ch reaches when every live session is a target
Targets_AllSessions(ch) == {c \in ConnIds : sessions[c] # "none"}

\* the connections a publish for chat ch reaches: the live sessions of the users that
\* are participants of ch when the publish is made
Targets(ch) == {c \in ConnIds : sessions[c] \in participants[ch]}

\* publish(event, chatId)
Publish(ch) ==
    /\ delivered' = [chat |-> ch, to |-> Targets(ch)]
    /\ delivered' # delivered
    /\ graceEvent' = NoGraceEvent
    /\ acceptResult' = "none"
    /\ UNCHANGED <<sessions, status, declared, graceTimer, participants>>
    /\ UNCHANGED notServer

NextFanout ==
    \/ \E cred \in Credentials, c \in ConnIds : Accept(cred, c)
    \/ \E c \in ConnIds : Release(c)
    \/ \E ch \in PChats, u \in Users, v \in Users : CreateChat(ch, u, v)
    \/ \E ch \in PChats : Publish(ch)

(***************************************************************************)
(* Server: POST /api/chats (part_004 119-290) as the handler runs it: the  *)
(* lookup of an existing chat and the insert of a new one are separate     *)
(* awaited calls, and other requests are served between them.              *)
(***************************************************************************)
ChatReqIds == 1..MaxChatReqs
\* participantIds[0]: a user, or the id of no user
OtherIds == Users \cup {"nobody"}

NoChatReq == [stage |-> "idle", user |-> "none", other |-> "none", status |-> "none",
              chat |-> 0]

InitChatRoute == chatReqs = [r \in ChatReqIds |-> NoChatReq]

\* Chat.findOne({participants: {$all: [u, v]}, type: 'private'})  (157-165): the id of
\* a chat of the two users, 0 when there is none
FindOne(u, v) ==
    IF \E ch \in PChats : participants[ch] = {u, v}
    THEN CHOOSE ch \in PChats : participants[ch] = {u, v}
    ELSE 0

\* the checks before the lookup (126-153)
ChatStatus(u, v) ==
    IF v = u THEN "BadRequest"
    ELSE IF v \notin Users THEN "NotFound"
    ELSE "pass"

\* the handler up to the answer of Chat.findOne: the request is rejected, or answered
\* with the chat found (167-212), or goes on to Chat.create
ChatLookup(r, u, v) ==
    /\ chatReqs[r].stage = "idle"
    /\ chatReqs' = [chatReqs EXCEPT ![r] =
          IF ChatStatus(u, v) # "pass"
          THEN [stage |-> "done", user |-> u, other |-> v, status |-> ChatStatus(u, v),
                chat |-> 0]
          ELSE IF FindOne(u, v) # 0
          THEN [stage |-> "done", user |-> u, other |-> v, status |-> "OK",
                chat |-> FindOne(u, v)]
          ELSE [stage |-> "looked", user |-> u, other |-> v, status |-> "none", chat |-> 0]]
    /\ UNCHANGED <<presenceVars, fanoutVars>>
    /\ UNCHANGED notChatRoute

\* Chat.create({participants: [u, v], type: 'private', ...}) under a fresh id, and the
\* 201 response (214-290)
ChatInsert(r) ==
    /\ chatReqs[r].stage = "looked"
    /\ \E ch \in PChats :
          /\ participants[ch] = {}
          /\ \A lower \in PChats : lower < ch => participants[lower] # {}
          /\ participants' = [participants EXCEPT ![ch] = {chatReqs[r].user, chatReqs[r].other}]
          /\ chatReqs' = [chatReqs EXCEPT ![r].stage = "done", ![r].status = "Created",
                                          ![r].chat = ch]
    /\ UNCHANGED <<delivered, presenceVars>>
    /\ UNCHANGED notChatRoute

NextChats ==
    \/ \E r \in ChatReqIds, u \in Users, v \in OtherIds : ChatLookup(r, u, v)
    \/ \E r \in ChatReqIds : ChatInsert(r)

(***************************************************************************)
(* Server: the REST routes of /api/messages (part_005).  A request is      *)
(* served in one step; the requests come from authenticated users          *)
(* (authMiddleware), and the contents are those of Raw, none longer than   *)
(* 5000 characters and none with media.                                    *)
(***************************************************************************)
NoDate == -1
MessageIds == 1..MaxStored
\* the :messageId of a request: 0 is a string that is not an ObjectId
RequestIds == 0..MaxStored
\* the chatId of a request: 0 is a missing or malformed chatId
RequestChats == {0} \cup PChats
\* the instants Date.now() takes: the edges of the two windows for a message sent at 0
\* the chats that come to exist while the routes are exercised; the other chat ids of
\* the requests name no chat
OpenedChats == {1}
\* the content of an edit request, as typed
EditRaw == {"hi!", " "}
Instants == {0, fifteenMinutesInMs, fifteenMinutesInMs + 1,
             twentyFourHoursInMs, twentyFourHoursInMs + 1}

NoMessage == [state |-> "none", chatId |-> 0, senderId |-> "none", content |-> "",
              editedAt |-> NoDate, deletedFor |-> {}, timestamp |-> NoDate]
NoBroadcast == [call |-> "none", messageId |-> 0, chatId |-> 0, senderId |-> "none",
                content |-> "", at |-> NoDate]
NoRequest == [op |-> "none", user |-> "none", messageId |-> 0, forAll |-> FALSE,
              status |-> "none", broadcast |-> NoBroadcast]

InitMessages ==
    /\ messageStore = [id \in MessageIds |-> NoMessage]
    /\ nstored = 0
    /\ clock = 0
    /\ nreq = 0
    /\ restResult = NoRequest

\* Message.findById
FindById(id) == IF id \in MessageIds /\ messageStore[id].state = "stored"
                THEN messageStore[id] ELSE NoMessage

\* time passes
Tick ==
    /\ \E t \in Instants : /\ t > clock
                           /\ \A t2 \in Instants : t2 > clock => t <= t2
                           /\ clock' = t
    /\ UNCHANGED <<messageStore, nstored, nreq, restResult>>
    /\ UNCHANGED notMessages

\* a broadcast made whether or not the write before it succeeded
Broadcast_Unconditional(written, socketHandler, payload) ==
    IF socketHandler THEN payload ELSE NoBroadcast

\* const socketHandler = getSocketHandler(); if (socketHandler) socketHandler.broadcast...
\* (213-222, 543-551, 684-690): reached only when the awaited writes before it resolved
Broadcast(written, socketHandler, payload) ==
    IF written /\ socketHandler THEN payload ELSE NoBroadcast

\* the checks of POST /api/messages before Message.create (138-186)
PostStatus(u, chatId, raw) ==
    IF chatId = 0 THEN "BadRequest"
    ELSE IF Trim(raw) = "" THEN "BadRequest"
    ELSE IF participants[chatId] = {} THEN "NotFound"
    ELSE IF u \notin participants[chatId] THEN "Forbidden"
    ELSE "pass"

\* POST /api/messages (130-237); failed names the awaited write that rejects, if any
PostMessage(u, chatId, raw, failed, socketHandler) ==
    LET id == nstored + 1
        checks == PostStatus(u, chatId, raw)
        created == checks = "pass" /\ failed # "create"
        updated == created /\ failed # "update"
        doc == [state |-> "stored", chatId |-> chatId, senderId |-> u,
                content |-> Trim(raw), editedAt |-> NoDate, deletedFor |-> {},
                timestamp |-> clock]
        payload == [call |-> "broadcastNewMessage", messageId |-> id, chatId |-> chatId,
                    senderId |-> u, content |-> Trim(raw), at |-> clock]
    IN  /\ nreq < MaxRequests
        /\ nstored < MaxStored
        \* a request the checks reject reaches neither a write nor getSocketHandler()
        /\ checks # "pass" => failed = "none" /\ socketHandler
        /\ nreq' = nreq + 1
        /\ messageStore' = IF created THEN [messageStore EXCEPT ![id] = doc] ELSE messageStore
        /\ nstored' = IF created THEN id ELSE nstored
        /\ restResult' = [op |-> "POST", user |-> u, messageId |-> IF created THEN id ELSE 0,
                          forAll |-> FALSE,
                          status |-> IF checks # "pass" THEN checks
                                     ELSE IF updated THEN "Created" ELSE "InternalError",
                          broadcast |-> IF checks = "pass"
                                        THEN Broadcast(updated, socketHandler, payload)
                                        ELSE NoBroadcast]
        /\ UNCHANGED clock
        /\ UNCHANGED notMessages

\* the checks of PATCH for a message that may be edited at any age
EditStatus_AnyAge(u, id, raw) ==
    IF id = 0 THEN "BadRequest"
    ELSE IF Trim(raw) = "" THEN "BadRequest"
    ELSE IF FindById(id).state # "stored" THEN "NotFound"
    ELSE IF FindById(id).senderId # u THEN "Forbidden"
    ELSE "pass"

\* the checks of PATCH /api/messages/:messageId before the update (490-530)
EditStatus(u, id, raw) ==
    IF id = 0 THEN "BadRequest"
    ELSE IF Trim(raw) = "" THEN "BadRequest"
    ELSE IF FindById(id).state # "stored" THEN "NotFound"
    ELSE IF FindById(id).senderId # u THEN "Forbidden"
    ELSE IF clock - FindById(id).timestamp > fifteenMinutesInMs THEN "Forbidden"
    ELSE "pass"

\* PATCH /api/messages/:messageId (481-563); failed: message.save() rejects
PatchMessage(u, id, raw, failed, socketHandler) ==
    LET checks == EditStatus(u, id, raw)
        saved == checks = "pass" /\ ~failed
        payload == [call |-> "broadcastEditedMessage", messageId |-> id,
                    chatId |-> FindById(id).chatId, senderId |-> "none",
                    content |-> Trim(raw), at |-> clock]
    IN  /\ nreq < MaxRequests
        /\ checks # "pass" => ~failed /\ socketHandler
        /\ nreq' = nreq + 1
        /\ messageStore' = IF saved
                           THEN [messageStore EXCEPT ![id].content = Trim(raw),
                                                     ![id].editedAt = clock]
                           ELSE messageStore
        /\ restResult' = [op |-> "PATCH", user |-> u, messageId |-> id, forAll |-> FALSE,
                          status |-> IF checks # "pass" THEN checks
                                     ELSE IF saved THEN "OK" ELSE "InternalError",
                          broadcast |-> IF checks = "pass"
                                        THEN Broadcast(saved, socketHandler, payload)
                                        ELSE NoBroadcast]
        /\ UNCHANGED <<nstored, clock>>
        /\ UNCHANGED notMessages

\* the checks of DELETE /api/messages/:messageId before the delete (629-673)
DeleteStatus(u, id, deleteForAll) ==
    IF id = 0 THEN "BadRequest"
    ELSE IF FindById(id).state # "stored" THEN "NotFound"
    ELSE IF participants[FindById(id).chatId] = {} THEN "NotFound"
    ELSE IF u \notin participants[FindById(id).chatId] THEN "Forbidden"
    ELSE IF deleteForAll /\ FindById(id).senderId # u THEN "Forbidden"
    ELSE IF deleteForAll /\ clock - FindById(id).timestamp > twentyFourHoursInMs
         THEN "Forbidden"
    ELSE "pass"

\* DELETE /api/messages/:messageId?forAll= (620-713); forAll is the query string,
\* failed: the awaited write rejects
DeleteMessage(u, id, forAll, failed, socketHandler) ==
    LET deleteForAll == forAll = "true"
        checks == DeleteStatus(u, id, deleteForAll)
        \* the soft delete writes only when the user is not in deletedFor yet
        writes == checks = "pass" /\ (deleteForAll \/ u \notin FindById(id).deletedFor)
        written == checks = "pass" /\ ~(writes /\ failed)
        payload == [call |-> "broadcastDeletedMessage", messageId |-> id,
                    chatId |-> FindById(id).chatId, senderId |-> "none",
                    content |-> "", at |-> NoDate]
    IN  /\ nreq < MaxRequests
        /\ ~writes => ~failed
        /\ ~(checks = "pass" /\ deleteForAll) => socketHandler
        /\ nreq' = nreq + 1
        /\ messageStore' =
              IF ~(writes /\ written) THEN messageStore
              ELSE IF deleteForAll
                   THEN [messageStore EXCEPT ![id] = [NoMessage EXCEPT !.state = "deleted"]]
                   ELSE [messageStore EXCEPT ![id].deletedFor = @ \cup {u}]
        /\ restResult' = [op |-> "DELETE", user |-> u, messageId |-> id,
                          forAll |-> deleteForAll,
                          status |-> IF checks # "pass" THEN checks
                                     ELSE IF written THEN "OK" ELSE "InternalError",
                          broadcast |-> IF checks = "pass" /\ deleteForAll
                                        THEN Broadcast(written, socketHandler, payload)
                                        ELSE NoBroadcast]
        /\ UNCHANGED <<nstored, clock>>
        /\ UNCHANGED notMessages

NextMessages ==
    \/ \E ch \in OpenedChats, u \in Users, v \in Users : CreateChat(ch, u, v)
    \/ Tick
    \/ \E u \in Users, ch \in RequestChats, raw \in Raw,
          failed \in {"none", "create", "update"}, h \in BOOLEAN :
             PostMessage(u, ch, raw, failed, h)
    \/ \E u \in Users, id \in RequestIds, raw \in EditRaw, failed \in BOOLEAN, h \in BOOLEAN :
             PatchMessage(u, id, raw, failed, h)
    \/ \E u \in Users, id \in RequestIds, forAll \in {"true", "false", "undefined"},
          failed \in BOOLEAN, h \in BOOLEAN :
             DeleteMessage(u, id, forAll, failed, h)

(***************************************************************************)
(* Server: the routes of /api/feedback-requests (feedback.ts 123-733) for  *)
(* the feedback request on one message of a chat of b and c.  The PATCH    *)
(* handler is modelled as it runs: FeedbackRequest.findById and            *)
(* feedbackRequest.save() are separate awaited calls, and other requests   *)
(* are served between them.                                                *)
(***************************************************************************)
PatchReqIds == 1..MaxPatchReqs
\* the :id of a request: 0 is a string that is not an ObjectId
FeedbackIds == {0, 1}
\* the status of the body; "pending" stands for every value the handler does not accept
StatusInputs == {"responded", "expired", "pending"}
\* chat.participants of the chat that holds the message
FeedbackChat == {"b", "c"}

NoFeedback == [status |-> "none", requesterId |-> "none", responderId |-> "none",
               requestedAt |-> NoDate, respondedAt |-> NoDate, expiresAt |-> NoDate]
NoPatchReq == [stage |-> "idle", user |-> "none", at |-> NoDate, setStatus |-> "none",
               setRespondedAt |-> NoDate, status |-> "none"]

InitFeedback ==
    /\ feedbackStore = NoFeedback
    /\ patchReqs = [r \in PatchReqIds |-> NoPatchReq]

\* the checks of POST /api/feedback-requests before FeedbackRequest.create (131-192);
\* the message and both users exist
CreateStatus(u, responderId) ==
    IF responderId = u THEN "BadRequest"
    ELSE IF u \notin FeedbackChat THEN "Forbidden"
    ELSE IF responderId \notin FeedbackChat THEN "BadRequest"
    ELSE IF feedbackStore.status # "none" THEN "Conflict"
    ELSE "pass"

\* POST /api/feedback-requests (123-257) when it creates the request; a rejected one
\* changes nothing.  The request is valid for 24 hours (58, 97-98)
FeedbackCreate(u, responderId) ==
    /\ CreateStatus(u, responderId) = "pass"
    /\ feedbackStore' = [status |-> "pending", requesterId |-> u,
                         responderId |-> responderId, requestedAt |-> clock,
                         respondedAt |-> NoDate,
                         expiresAt |-> clock + twentyFourHoursInMs]
    /\ UNCHANGED patchReqs
    /\ UNCHANGED notFeedback

\* the checks of PATCH on the document findById returned (638-669); "expired" is the
\* branch that marks the request expired before it rejects
PatchStatus(u, id, want) ==
    IF id = 0 THEN "BadRequest"
    ELSE IF want \notin {"responded", "expired"} THEN "BadRequest"
    ELSE IF feedbackStore.status = "none" THEN "NotFound"
    ELSE IF feedbackStore.responderId # u THEN "Forbidden"
    ELSE IF feedbackStore.status = "expired" \/ clock > feedbackStore.expiresAt
    THEN "expired"
    ELSE IF feedbackStore.status = "responded" /\ want = "responded" THEN "BadRequest"
    ELSE "pass"

\* the handler from the request to the assignments before save() (629-677): the
\* request is rejected, or holds the paths it modified on its copy of the document
PatchFind(r, u, id, want) ==
    LET checks == PatchStatus(u, id, want)
        to == IF checks = "expired" THEN "expired" ELSE want
    IN  /\ patchReqs[r].stage = "idle"
        /\ \A lower \in PatchReqIds : lower < r => patchReqs[lower].stage # "idle"
        /\ patchReqs' = [patchReqs EXCEPT ![r] =
              IF checks \notin {"pass", "expired"}
              THEN [stage |-> "done", user |-> u, at |-> clock, setStatus |-> "none",
                    setRespondedAt |-> NoDate, status |-> checks]
              ELSE [stage |-> "saving", user |-> u, at |-> clock,
                    setStatus |-> IF to # feedbackStore.status THEN to ELSE "none",
                    setRespondedAt |-> IF to = "responded" THEN clock ELSE NoDate,
                    status |-> IF checks = "expired" THEN "BadRequest" ELSE "OK"]]
        /\ UNCHANGED feedbackStore
        /\ UNCHANGED notFeedback

\* feedbackRequest.save() (662, 679): the modified paths are written to the stored
\* document
Saved(doc, req) ==
    [doc EXCEPT !.status = IF req.setStatus # "none" THEN req.setStatus ELSE @,
                !.respondedAt = IF req.setRespondedAt # NoDate
                                THEN req.setRespondedAt ELSE @]

\* the handler from save() to the response (662-663, 679-733)
PatchSave(r) ==
    /\ patchReqs[r].stage = "saving"
    /\ feedbackStore' = Saved(feedbackStore, patchReqs[r])
    /\ patchReqs' = [patchReqs EXCEPT ![r].stage = "done"]
    /\ UNCHANGED notFeedback

NextFeedback ==
    \/ Tick
    \/ \E u \in Users, responderId \in Users : FeedbackCreate(u, responderId)
    \/ \E r \in PatchReqIds, u \in Users, id \in FeedbackIds, want \in StatusInputs :
          PatchFind(r, u, id, want)
    \/ \E r \in PatchReqIds : PatchSave(r)

(***************************************************************************)
(* Server: registration (routes/feedback.ts 761-1023).  A request is       *)
(* served in one step.                                                     *)
(***************************************************************************)
\* req.body.email: written in lower or in upper case, malformed, or missing
Emails == {"dup@example.com", "DUP@example.com", "invalid-email", ""}
\* req.body.password: one that passes validatePassword, one that does not, none
Passwords == {"Test@1234", "Short1", ""}
\* the six-digit codes
Codes == {"111111", "222222"}

\* String.prototype.toLowerCase
ToLowerCase(email) == IF email = "DUP@example.com" THEN "dup@example.com" ELSE email
\* what AuthService.validateEmail and validatePassword answer for these inputs
ValidateEmail(email) == ToLowerCase(email) = "dup@example.com"
ValidatePassword(password) == password = "Test@1234"

StoredEmails == {ToLowerCase(e) : e \in {e2 \in Emails : ValidateEmail(e2)}}
NoRegistration == [password |-> "", code |-> ""]
NoAuthRequest == [op |-> "none", email |-> "", password |-> "", status |-> "none"]

InitAuth ==
    /\ userEmails = {}
    /\ registrations = [e \in StoredEmails |-> NoRegistration]
    /\ nauth = 0
    /\ authResult = NoAuthRequest

\* the response of POST /api/auth/register (883-916); connected: isRedisConnected()
RegisterStatus(email, password, connected) ==
    IF email = "" \/ password = "" THEN "BadRequest"
    ELSE IF ~ValidateEmail(email) THEN "BadRequest"
    ELSE IF ~ValidatePassword(password) THEN "BadRequest"
    ELSE IF ToLowerCase(email) \in userEmails THEN "Conflict"
    ELSE IF ~connected THEN "InternalError"
    ELSE "OK"

\* POST /api/auth/register (879-917); code is what generateSixDigitCode returns
Register(email, password, code, connected) ==
    LET response == RegisterStatus(email, password, connected)
    IN  /\ nauth < MaxAuthReqs
        /\ nauth' = nauth + 1
        /\ registrations' =
              IF response = "OK"
              THEN [registrations EXCEPT ![ToLowerCase(email)] =
                       [password |-> password, code |-> code]]
              ELSE registrations
        /\ authResult' = [op |-> "register", email |-> email, password |-> password,
                          status |-> response]
        /\ UNCHANGED userEmails
        /\ UNCHANGED notAuth

\* the response of POST /api/auth/verify-email (960-981)
VerifyStatus(email, code, connected) ==
    IF email = "" \/ code = "" THEN "BadRequest"
    ELSE IF ~ValidateEmail(email) THEN "BadRequest"
    ELSE IF ~connected \/ registrations[ToLowerCase(email)] = NoRegistration
         THEN "Unauthorized"
    ELSE IF registrations[ToLowerCase(email)].code # code THEN "Unauthorized"
    ELSE "Created"

\* POST /api/auth/verify-email (956-1023)
VerifyEmail(email, code, connected) ==
    LET response == VerifyStatus(email, code, connected)
    IN  /\ nauth < MaxAuthReqs
        /\ nauth' = nauth + 1
        /\ userEmails' = IF response = "Created" THEN userEmails \cup {ToLowerCase(email)}
                         ELSE userEmails
        /\ registrations' =
              IF response = "Created"
              THEN [registrations EXCEPT ![ToLowerCase(email)] = NoRegistration]
              ELSE registrations
        /\ authResult' = [op |-> "verify-email", email |-> email, password |-> "",
                          status |-> response]
        /\ UNCHANGED notAuth

NextAuth ==
    \/ \E email \in Emails, password \in Passwords, code \in Codes, connected \in BOOLEAN :
          Register(email, password, code, connected)
    \/ \E email \in Emails, code \in Codes \cup {""}, connected \in BOOLEAN :
          VerifyEmail(email, code, connected)

(***************************************************************************)
(* Server: login, refresh and logout (routes/feedback.ts 1089-1273).  A    *)
(* request is served in one step.  A user is named by the email of its     *)
(* document.                                                               *)
(***************************************************************************)
\* req.body.email of a login: the emails of the registration, one with a blank before
\* it, and "undefined" for a body without it
LoginEmails == Emails \cup {" dup@example.com", "undefined"}
\* req.body.password of a login
LoginPasswords == {"Test@1234", "WrongPassword123", "undefined"}

\* String.prototype.trim on the emails
TrimEmail(email) == IF email = " dup@example.com" THEN "dup@example.com" ELSE email
\* email.toLowerCase().trim()  (1098)
NormalizedEmail(email) == TrimEmail(ToLowerCase(email))

\* AuthService.comparePassword(password, user.passwordHash): the hash of a user is
\* that of the password its registration passed through validatePassword
ComparePassword(password) == ValidatePassword(password)

\* a refresh token: the user and serial it was generated for, and what its signature
\* and expiry are worth; serial 0 is a token signed with the secret but never
\* generated by a login
SerialIds == 0..MaxSessionReqs
Signatures == {"valid", "expired", "invalid"}
NoToken == [user |-> "none", serial |-> 0, sig |-> "none"]
RefreshTokens == [user : StoredEmails, serial : SerialIds, sig : Signatures]
\* req.body.refreshToken: a token whose serial was generated or is 0, or no string
RefreshInputs == {t \in RefreshTokens : t.serial <= nissued} \cup {NoToken}

\* AuthService.verifyRefreshToken  (1218)
VerifyRefreshToken(t) == [valid |-> t.sig = "valid", userId |-> t.user]

InitSession ==
    /\ tokenStore = {}
    /\ onlineStatus = [u \in StoredEmails |-> "offline"]
    /\ nissued = 0
    /\ revoked = {}
    /\ nsess = 0
    /\ sessResult = [op |-> "none", user |-> "none", password |-> "", token |-> NoToken,
                     status |-> "none", accessToken |-> FALSE]

\* the response of POST /api/auth/login (1094-1148)
LoginStatus(email, password) ==
    IF email = "undefined" \/ password = "undefined" THEN "BadRequest"
    ELSE IF ~ValidateEmail(NormalizedEmail(email)) THEN "BadRequest"
    ELSE IF NormalizedEmail(email) \notin userEmails THEN "Unauthorized"
    ELSE IF ~ComparePassword(password) THEN "Unauthorized"
    ELSE "OK"

\* POST /api/auth/login (1089-1166); connected: the token store takes the writes
\* (setRefreshToken and setUserStatus answer false otherwise, and the login goes on)
AuthLogin(email, password, connected) ==
    LET response == LoginStatus(email, password)
        u == NormalizedEmail(email)
        refreshToken == [user |-> u, serial |-> nissued + 1, sig |-> "valid"]
    IN  /\ nsess < MaxSessionReqs
        /\ response # "OK" => connected
        /\ nsess' = nsess + 1
        /\ nissued' = IF response = "OK" THEN nissued + 1 ELSE nissued
        /\ tokenStore' = IF response = "OK" /\ connected
                         THEN tokenStore \cup {refreshToken} ELSE tokenStore
        /\ onlineStatus' = IF response = "OK" /\ connected
                           THEN [onlineStatus EXCEPT ![u] = "online"] ELSE onlineStatus
        /\ sessResult' = [op |-> "login", user |-> email, password |-> password,
                          token |-> IF response = "OK" THEN refreshToken ELSE NoToken,
                          status |-> response, accessToken |-> response = "OK"]
        /\ UNCHANGED revoked
        /\ UNCHANGED notSession

\* hasRefreshToken(userId, refreshToken)  (1224-1227)
HasRefreshToken(store, userId, t) == t \in store /\ t.user = userId

\* the response of POST /api/auth/refresh (1214-1239)
RefreshStatus(t) ==
    IF t = NoToken THEN "BadRequest"
    ELSE IF ~VerifyRefreshToken(t).valid THEN "Unauthorized"
    ELSE IF ~HasRefreshToken(tokenStore, VerifyRefreshToken(t).userId, t) THEN "Unauthorized"
    ELSE "OK"

\* POST /api/auth/refresh (1209-1244)
AuthRefresh(t) ==
    /\ nsess < MaxSessionReqs
    /\ nsess' = nsess + 1
    /\ sessResult' = [op |-> "refresh", user |-> t.user, password |-> "", token |-> t,
                      status |-> RefreshStatus(t), accessToken |-> RefreshStatus(t) = "OK"]
    /\ UNCHANGED <<tokenStore, onlineStatus, nissued, revoked>>
    /\ UNCHANGED notSession

\* a refresh request with any of the tokens a client can hold
RefreshRequest == \E t \in RefreshInputs : AuthRefresh(t)

\* a logout that leaves the tokens of the user in the store
Invalidated_None(store, userId) == store

\* invalidateAllRefreshTokens(userId)  (1258)
Invalidated(store, userId) == {t \in store : t.user # userId}

\* POST /api/auth/logout (1247-1273) by the user authMiddleware found in the request
AuthLogout(u) ==
    /\ nsess < MaxSessionReqs
    /\ u \in userEmails
    /\ nsess' = nsess + 1
    /\ tokenStore' = Invalidated(tokenStore, u)
    /\ onlineStatus' = [onlineStatus EXCEPT ![u] = "offline"]
    /\ revoked' = revoked \cup {t \in RefreshTokens :
                                   t.user = u /\ t.serial \in 1..nissued /\ t.sig = "valid"}
    /\ sessResult' = [op |-> "logout", user |-> u, password |-> "", token |-> NoToken,
                      status |-> "OK", accessToken |-> FALSE]
    /\ UNCHANGED nissued
    /\ UNCHANGED notSession

\* the registration of the test file: a valid register and the verify-email with its code
NextSession ==
    \/ \E email \in Emails, password \in Passwords, code \in Codes, connected \in BOOLEAN :
          Register(email, password, code, connected)
    \/ \E email \in Emails, code \in Codes \cup {""}, connected \in BOOLEAN :
          VerifyEmail(email, code, connected)
    \/ \E email \in LoginEmails, password \in LoginPasswords, connected \in BOOLEAN :
          AuthLogin(email, password, connected)
    \/ RefreshRequest
    \/ \E u \in StoredEmails : AuthLogout(u)

(***************************************************************************)
(* Server: Typing Coordinator, after sections 3, 4.3 and 5 of the          *)
(* specification.                                                          *)
(***************************************************************************)
\* the keys of the coordinator: a user typing in two chats, two users typing in one
TypingPairs == {<<1, "a">>, <<1, "b">>, <<2, "a">>}

\* transitions emitted to the participants of the chat: "typing", and "not typing"
\* caused by an explicit stop ("stop") or synthesized at expiry ("expiry")
NotTyping == {"stop", "expiry"}

InitTyping ==
    /\ typingStates = [p \in TypingPairs |-> 0]
    /\ expiryTimers = [p \in TypingPairs |-> 0]
    /\ typingLog = [p \in TypingPairs |-> <<>>]
    /\ typingOp = "none"

\* start that adds a state and a timer next to the ones the pair has
Start_AlwaysInsert(p) ==
    /\ Len(typingLog[p]) < 2 * MaxEpisodes
    /\ typingStates' = [typingStates EXCEPT ![p] = @ + 1]
    /\ expiryTimers' = [expiryTimers EXCEPT ![p] = @ + 1]
    /\ typingLog' = [typingLog EXCEPT ![p] = IF typingStates[p] = 0 THEN Append(@, "typing") ELSE @]
    /\ typingOp' = IF typingStates[p] = 0 THEN "insert" ELSE "refresh"
    /\ UNCHANGED notTyping

\* start that emits at every call
Start_AlwaysEmit(p) ==
    /\ Len(typingLog[p]) < 2 * MaxEpisodes
    /\ typingStates' = [typingStates EXCEPT ![p] = 1]
    /\ expiryTimers' = [expiryTimers EXCEPT ![p] = 1]
    /\ typingLog' = [typingLog EXCEPT ![p] = Append(@, "typing")]
    /\ typingOp' = IF typingStates[p] = 0 THEN "insert" ELSE "refresh"
    /\ UNCHANGED notTyping

\* start that arms no expiry timer
Start_NoTimer(p) ==
    /\ Len(typingLog[p]) < 2 * MaxEpisodes
    /\ typingStates' = [typingStates EXCEPT ![p] = 1]
    /\ typingLog' = [typingLog EXCEPT ![p] = IF typingStates[p] = 0 THEN Append(@, "typing") ELSE @]
    /\ UNCHANGED expiryTimers
    /\ typingOp' = IF typingStates[p] = 0 THEN "insert" ELSE "refresh"
    /\ UNCHANGED notTyping

\* start(chatId, userId): insert-or-refresh. A new state emits "typing"; an existing
\* one only has its expiry moved, the new arm cancelling the prior one.
Start(p) ==
    /\ Len(typingLog[p]) < 2 * MaxEpisodes
    /\ typingStates' = [typingStates EXCEPT ![p] = 1]
    /\ expiryTimers' = [expiryTimers EXCEPT ![p] = 1]
    /\ typingLog' = [typingLog EXCEPT ![p] = IF typingStates[p] = 0 THEN Append(@, "typing") ELSE @]
    /\ typingOp' = IF typingStates[p] = 0 THEN "insert" ELSE "refresh"
    /\ UNCHANGED notTyping

\* stop that leaves the expiry timer armed
Stop_NoCancel(p) ==
    /\ typingStates[p] > 0
    /\ typingStates' = [typingStates EXCEPT ![p] = 0]
    /\ typingLog' = [typingLog EXCEPT ![p] = Append(@, "stop")]
    /\ UNCHANGED expiryTimers
    /\ typingOp' = "stop"
    /\ UNCHANGED notTyping

\* stop(chatId, userId): remove the state, cancel the pending expiry, emit "not
\* typing". Without a state there is no transition to emit.
Stop(p) ==
    /\ typingStates[p] > 0
    /\ typingStates' = [typingStates EXCEPT ![p] = 0]
    /\ expiryTimers' = [expiryTimers EXCEPT ![p] = 0]
    /\ typingLog' = [typingLog EXCEPT ![p] = Append(@, "stop")]
    /\ typingOp' = "stop"
    /\ UNCHANGED notTyping

\* an armed expiry timer fires: the coordinator synthesizes a stop
Expire(p) ==
    /\ expiryTimers[p] > 0
    /\ expiryTimers' = [expiryTimers EXCEPT ![p] = @ - 1]
    /\ typingStates' = [typingStates EXCEPT ![p] = 0]
    /\ typingLog' = [typingLog EXCEPT ![p] = Append(@, "expiry")]
    /\ typingOp' = "expire"
    /\ UNCHANGED notTyping

NextTyping ==
    \/ \E p \in TypingPairs : Start(p)
    \/ \E p \in TypingPairs : Stop(p)
    \/ \E p \in TypingPairs : Expire(p)

(***************************************************************************)
(* Specifications: one per component, the other components standing still. *)
(***************************************************************************)
InitAll == InitSocket /\ InitView /\ InitMessages /\ InitChatRoute /\ InitAuth /\ InitSession /\ InitComposer /\ InitFeedback /\ InitEmit /\ InitService /\ InitChat /\ InitClientTyping /\ InitPresence /\ InitFanout /\ InitTyping

SpecSocket == InitAll /\ [][NextSocket]_vars

SpecEmit == InitAll /\ [][NextEmit]_vars

SpecService == InitAll /\ [][NextService]_vars

SpecChat == InitAll /\ [][NextChat]_vars

SpecSend == InitAll /\ [][NextSend]_vars

SpecComposer == InitAll /\ [][NextComposer]_vars

\* a timer armed with setTimeout fires unless clearTimeout removes it
SpecComposerFair ==
    SpecComposer /\ \A t \in ComposerTimerSet : WF_vars(ComposerTimeout(t))

SpecView == InitAll /\ [][NextView]_vars

SpecChats == InitAll /\ [][NextChats]_vars
SpecFeedback == InitAll /\ [][NextFeedback]_vars

SpecAuth == InitAll /\ [][NextAuth]_vars

SpecSession == InitAll /\ [][NextSession]_vars

SpecMessages == InitAll /\ [][NextMessages]_vars

SpecClientTyping == InitAll /\ [][NextClientTyping]_vars

SpecPresence == InitAll /\ [][NextPresence]_vars

SpecFanout == InitAll /\ [][NextFanout]_vars

SpecTyping == InitAll /\ [][NextTyping]_vars

\* a timer that is armed fires unless it is cancelled
SpecTypingFair == SpecTyping /\ \A p \in TypingPairs : WF_vars(Expire(p))

(***************************************************************************)
(* Claims about the message list.                                          *)
(***************************************************************************)
\* C1: once a send is confirmed by REST and its message is in the list, whichever of
\* the confirmation and the 'message:new' echo came first, the list holds exactly one
\* entry with the real id, carrying the confirmed data, and none with the temporary id.
C1_OptimisticCollapses ==
    \A k \in 1..MaxMsgs :
        (sends[k].stage = "resolved" /\ Has(messages, RealId(sends[k].realId))) =>
            /\ Count(messages, RealId(sends[k].realId)) = 1
            /\ Count(messages, TempId(sends[k].tempId)) = 0
            /\ \A i \in 1..Len(messages) :
                  messages[i].id = RealId(sends[k].realId) =>
                      /\ messages[i].content = serverMsgs[sends[k].realId].content
                      /\ messages[i].chatId = sends[k].chatId
                      /\ messages[i].senderId = Me

\* C2: a delivery of 'message:new' leaves exactly one entry with the event's message
\* id in the list, and a delivery for an id the list already holds changes nothing.
C2_DuplicateDelivery ==
    lastEvent # 0 => Count(messages, RealId(lastEvent)) = 1

(***************************************************************************)
(* Claims about sessions and presence.                                     *)
(***************************************************************************)
\* C10: whatever the interleaving of accept and release over the connections, a
\* user's presence status is online exactly when the user has at least one live
\* session.
C10_PresenceIffSessions ==
    \A u \in Users : status[u] = "online" <=> SessionCount(sessions, u) > 0

\* a user's last session was released while the other user holds two sessions
C10_Witness ==
    \E u \in Users, v \in Users :
        /\ u # v
        /\ SessionCount(sessions, u) = 0
        /\ status[u] = "offline"
        /\ graceTimer[u]
        /\ SessionCount(sessions, v) = 2
        /\ status[v] = "online"

\* C11: an offline transition is reported for a user only when the grace-window
\* timer armed at the release of the user's last session elapses, the user having had
\* no live session for as long as the timer was armed; a session accepted while the
\* timer is armed cancels it and the user stays reported online.
C11_GraceWindow ==
    [][\A u \in Users :
          /\ (declared[u] = "online" /\ declared'[u] = "offline") =>
                 /\ graceTimer[u]
                 /\ graceEvent' = <<"expired", u>>
                 /\ SessionCount(sessions, u) = 0
                 /\ SessionCount(sessions', u) = 0
          /\ graceTimer'[u] => (SessionCount(sessions', u) = 0 /\ declared'[u] = "online")
          /\ (graceTimer[u] /\ SessionCount(sessions', u) > 0) =>
                 /\ ~graceTimer'[u]
                 /\ graceEvent' = <<"cancelled", u>>
                 /\ declared'[u] = "online"]_vars

\* a session was accepted within the grace window of a user while another user's
\* window is still running
C11_Witness ==
    \E u \in Users, v \in Users :
        /\ u # v
        /\ graceEvent = <<"cancelled", u>>
        /\ declared[u] = "online"
        /\ SessionCount(sessions, u) = 1
        /\ ~graceTimer[u]
        /\ graceTimer[v]

\* C13: an accept whose credential is missing or invalid fails with Unauthenticated
\* and creates no state: no session is registered, and the session counts, the
\* presence and the pending timers are unchanged.
C13_UnauthenticatedCreatesNothing ==
    [][acceptResult' = "Unauthenticated" =>
          /\ UNCHANGED <<sessions, status, declared, graceTimer>>
          /\ \A c \in ConnIds : sessions'[c] \in Users \cup {"none"}]_vars

\* an accept was refused while a user holds a session and another user's grace window
\* is running
C13_Witness ==
    /\ acceptResult = "Unauthenticated"
    /\ \E u \in Users, v \in Users :
          /\ SessionCount(sessions, u) > 0
          /\ graceTimer[v]

(***************************************************************************)
(* Claims about the broadcast fanout.                                      *)
(***************************************************************************)
\* C12: an event published for a chat is delivered only to sessions of users that are
\* participants of the chat when it is published, and to every such session.
C12_OnlyParticipants ==
    delivered.chat # 0 =>
        /\ \A c \in delivered.to :
              sessions[c] # "none" /\ sessions[c] \in participants[delivered.chat]
        /\ \A c \in ConnIds :
              sessions[c] \in participants[delivered.chat] => c \in delivered.to

\* an event was delivered for a chat while a user outside the chat holds a session
C12_Witness ==
    /\ delivered.chat # 0
    /\ delivered.to # {}
    /\ \E c \in ConnIds :
          /\ sessions[c] # "none"
          /\ sessions[c] \notin participants[delivered.chat]

(***************************************************************************)
(* Claims about the typing coordinator.                                    *)
(***************************************************************************)
\* C14: the coordinator holds at most one TypingState and at most one armed expiry
\* timer per (chatId, userId) pair; a start for a pair that has a state refreshes it.
C14_OneStatePerPair ==
    \A p \in TypingPairs : typingStates[p] <= 1 /\ expiryTimers[p] <= 1

\* a start has just refreshed a pair while another pair is typing too
C14_Witness ==
    /\ typingOp = "refresh"
    /\ \E p \in TypingPairs, q \in TypingPairs :
          /\ p # q
          /\ typingStates[p] = 1 /\ expiryTimers[p] = 1
          /\ typingStates[q] = 1 /\ expiryTimers[q] = 1

\* C15: a start followed by a stop before expiry yields exactly one "not typing"
\* transition: the stop cancels the pending expiry timer, so no transition to "not
\* typing" is ever followed by a second one without a "typing" in between.
C15_StopWins ==
    \A p \in TypingPairs :
        /\ typingStates[p] = 0 => expiryTimers[p] = 0
        /\ \A i \in 1..Len(typingLog[p]) :
              typingLog[p][i] \in NotTyping =>
                  /\ i > 1
                  /\ typingLog[p][i - 1] = "typing"

\* an episode has just ended by an explicit stop, after one ended by expiry
C15_Witness ==
    \E p \in TypingPairs :
        /\ typingOp = "stop"
        /\ typingLog[p] = <<"typing", "expiry", "typing", "stop">>
        /\ typingStates[p] = 0

\* C16: a start for a pair that is typing emits nothing and only re-arms the expiry,
\* so "typing" is never emitted twice without a "not typing" in between.
C16_NoDuplicateTyping ==
    [][\A p \in TypingPairs :
          /\ (typingStates[p] > 0 /\ typingStates'[p] > 0) =>
                 (typingLog'[p] = typingLog[p] /\ expiryTimers'[p] = 1)
          /\ \A i \in 1..Len(typingLog'[p]) :
                 (typingLog'[p][i] = "typing" /\ i > 1) => typingLog'[p][i - 1] \in NotTyping]_vars

\* a start has just refreshed the only pair that is typing, in its second episode
C16_Witness ==
    /\ typingOp = "refresh"
    /\ \E p \in TypingPairs :
          /\ typingLog[p] = <<"typing", "stop", "typing">>
          /\ typingStates[p] = 1
          /\ \A q \in TypingPairs \ {p} : typingStates[q] = 0

\* C17: a pair that is typing eventually is not, the expiry timer firing if no stop
\* arrives; the stop synthesized at expiry is emitted once, for a pair that was
\* typing, and leaves neither state nor timer behind.
C17_ExpiryStops ==
    /\ \A p \in TypingPairs : (typingStates[p] > 0) ~> (typingStates[p] = 0)
    /\ [][\A p \in TypingPairs :
             (typingOp' = "expire" /\ expiryTimers'[p] # expiryTimers[p]) =>
                 /\ typingLog'[p] = Append(typingLog[p], "expiry")
                 /\ typingStates[p] = 1
                 /\ typingStates'[p] = 0
                 /\ expiryTimers'[p] = 0]_vars

\* an episode has just ended by expiry while another pair is still typing
C17_Witness ==
    \E p \in TypingPairs, q \in TypingPairs :
        /\ typingOp = "expire"
        /\ typingLog[p] = <<"typing", "expiry">>
        /\ typingStates[p] = 0
        /\ typingStates[q] = 1

(***************************************************************************)
(* Claims about the client's typing indicator.                             *)
(***************************************************************************)
\* C18: a user shown as typing in the selected chat has exactly one expiry timer
\* armed, a new typing event replacing the timer rather than adding one, and the
\* firing of the timer removes the user from the typing users without a stop event.
C18_ClientTypingExpiry ==
    [][\A u \in Peers :
          /\ typingTimeoutRef'[u] <= 1
          /\ u \in typingUsers' => typingTimeoutRef'[u] = 1
          /\ typingFired' = u =>
                 /\ u \notin typingUsers'
                 /\ typingTimeoutRef'[u] = 0]_vars

\* the timer of one user has just fired while another user is still shown as typing
C18_Witness ==
    \E u \in Peers, v \in Peers :
        /\ u # v
        /\ typingFired = u
        /\ u \notin typingUsers
        /\ v \in typingUsers
        /\ typingTimeoutRef[v] = 1

(***************************************************************************)
(* Claims about timers and teardown.                                       *)
(***************************************************************************)
\* C19: the client's timers are cleared on teardown; for the manager's delayed
\* reconnect: after the caller's disconnect(), and until the caller's next connect(),
\* no reconnect timer fires.
C19_TimersClearedOnTeardown ==
    [][lastCaller = "disconnect" => timers' >= timers]_vars

(***************************************************************************)
(* Claims about the socket service.                                        *)
(***************************************************************************)
\* C20: disconnect() of the socket service empties the five handler sets, and a
\* handler that was registered when disconnect() was called is in no set and is
\* called by no later inbound event, unless it is registered again.
C20_DisconnectClearsHandlers ==
    /\ \A k \in Kinds : dropped[k] \cap handlerSets[k] = {}
    /\ invoked.kind # "none" =>
          /\ invoked.handlers \cap dropped[invoked.kind] = {}
          /\ invoked.handlers = handlerSets[invoked.kind]

\* an event has just been dispatched to a handler registered after a disconnect()
\* that dropped another handler of the same kind
C20_Witness ==
    /\ invoked.kind # "none"
    /\ invoked.handlers # {}
    /\ dropped[invoked.kind] # {}

C23_PresenceNormalized ==
    \A ev \in {"user:online", "user:offline"} :
        invoked.event = ev =>
            /\ invoked.kind = "userStatus"
            /\ invoked.handlers = handlerSets["userStatus"]
            /\ invoked.arg.status = (IF ev = "user:online" THEN "online" ELSE "offline")
            /\ invoked.arg.userId = invoked.wire.userId
            /\ invoked.arg.timestamp = invoked.wire.timestamp

\* a 'user:online' whose payload said offline has just been dispatched to a handler
C23_Witness ==
    /\ invoked.event = "user:online"
    /\ invoked.wire.status = "offline"
    /\ invoked.arg.status = "online"
    /\ invoked.handlers # {}

(***************************************************************************)
(* Claims about emit.                                                      *)
(***************************************************************************)
\* C22: an emit() made while the manager holds no socket, or one that is not
\* connected, sends nothing and only warns, and no emit() changes the manager.
C22_EmitWithoutConnection ==
    [][nemit' # nemit =>
          /\ ~isConnected => emitResult' = "warned"
          /\ isConnected => emitResult' = "sent"
          /\ UNCHANGED socketVars]_vars

\* the last emit() only warned, with a socket held that is reconnecting, after an
\* earlier emit() was made
C22_Witness ==
    /\ nemit = 2
    /\ emitResult = "warned"
    /\ socket # 0
    /\ tstate[socket] = "connecting"
    /\ ret = "created"


\* C24: a 'message:deleted' event leaves the view without any message of that id and
\* with every other message where it was, in the same order; when no message has the
\* id, the view is unchanged.
C24_DeletedRemovesExactlyThat ==
    [][nview' # nview /\ viewEvent'.type = "deleted" =>
          LET id == viewEvent'.messageId
              Before(i) == Cardinality({j \in 1..(i - 1) : messages[j].id = id})
          IN  /\ \A i \in 1..Len(messages') : messages'[i].id # id
              /\ Len(messages') = Len(messages) - Before(Len(messages) + 1)
              /\ \A i \in 1..Len(messages) :
                    messages[i].id # id => messages'[i - Before(i)] = messages[i]
              /\ (~Has(messages, id) => messages' = messages)]_vars

C24_Witness ==
    /\ viewEvent.type = "deleted"
    /\ Len(messages) = 1
    /\ messages[1].id # viewEvent.messageId
    /\ viewEvent.messageId = RealId(1)

\* C25: a 'message:edited' event sets the content and editedAt of the messages with
\* that id and nothing else: the other fields, the other messages, the length and the
\* order of the list stay as they were.
C25_EditedChangesExactlyThat ==
    [][nview' # nview /\ viewEvent'.type = "edited" =>
          LET data == viewEvent'
          IN  /\ Len(messages') = Len(messages)
              /\ \A i \in 1..Len(messages) :
                    IF messages[i].id = data.messageId
                    THEN /\ messages'[i].content = data.content
                         /\ messages'[i].editedAt = data.editedAt
                         /\ messages'[i].id = messages[i].id
                         /\ messages'[i].chatId = messages[i].chatId
                         /\ messages'[i].senderId = messages[i].senderId
                         /\ messages'[i].named = messages[i].named
                         /\ DOMAIN messages'[i] = DOMAIN messages[i]
                    ELSE messages'[i] = messages[i]]_vars

C25_Witness ==
    /\ viewEvent.type = "edited"
    /\ Len(messages) = 2
    /\ \E i, j \in 1..2 : /\ messages[i].id = viewEvent.messageId
                          /\ messages[i].editedAt = 1
                          /\ messages[i].content = "hi!"
                          /\ messages[j].editedAt = 0

\* the responses of a request the checks turned down
Rejections == {"BadRequest", "NotFound", "Forbidden"}

\* C26: a request calls the broadcast layer at most once and only after its write is in
\* the store: broadcastNewMessage for the document a POST just created,
\* broadcastEditedMessage for the content and editedAt a PATCH just saved,
\* broadcastDeletedMessage for the document a DELETE with forAll=true just removed; a
\* rejected request, a request whose write failed and a soft delete call none.
C26_BroadcastAfterDurable ==
    [][nreq' # nreq =>
          LET r == restResult'
              b == restResult'.broadcast
          IN  /\ b.call \in {"none", "broadcastNewMessage", "broadcastEditedMessage",
                             "broadcastDeletedMessage"}
              /\ b.call = "broadcastNewMessage" =>
                    /\ r.op = "POST" /\ r.status = "Created"
                    /\ messageStore[b.messageId].state = "none"
                    /\ messageStore'[b.messageId].state = "stored"
                    /\ messageStore'[b.messageId].content = b.content
                    /\ messageStore'[b.messageId].chatId = b.chatId
                    /\ messageStore'[b.messageId].senderId = b.senderId
              /\ b.call = "broadcastEditedMessage" =>
                    /\ r.op = "PATCH" /\ r.status = "OK"
                    /\ messageStore'[b.messageId].state = "stored"
                    /\ messageStore'[b.messageId].content = b.content
                    /\ messageStore'[b.messageId].editedAt = b.at
                    /\ messageStore'[b.messageId].chatId = b.chatId
              /\ b.call = "broadcastDeletedMessage" =>
                    /\ r.op = "DELETE" /\ r.forAll /\ r.status = "OK"
                    /\ messageStore[b.messageId].state = "stored"
                    /\ messageStore[b.messageId].chatId = b.chatId
                    /\ messageStore'[b.messageId].state = "deleted"
              /\ r.status \in Rejections \cup {"InternalError"} => b = NoBroadcast
              /\ (r.op = "DELETE" /\ ~r.forAll) => b = NoBroadcast]_vars

C26_Witness ==
    /\ restResult.op = "DELETE"
    /\ restResult.broadcast.call = "broadcastDeletedMessage"
    /\ messageStore[restResult.messageId].state = "deleted"

\* C28: a PATCH for a stored message by a user who is not its sender, or made more than
\* 15 minutes after its timestamp, is rejected, leaves the store as it was and calls no
\* broadcast; a PATCH that changes the store comes from the sender within 15 minutes.
C28_EditOnlySenderInWindow ==
    [][nreq' # nreq /\ restResult'.op = "PATCH" =>
          LET r == restResult'
              m == FindById(r.messageId)
          IN  /\ (m.state = "stored" /\ (m.senderId # r.user
                                         \/ clock - m.timestamp > fifteenMinutesInMs)) =>
                    /\ r.status \in Rejections
                    /\ messageStore' = messageStore
                    /\ r.broadcast = NoBroadcast
              /\ messageStore' # messageStore =>
                    /\ m.senderId = r.user
                    /\ clock - m.timestamp <= fifteenMinutesInMs]_vars

C28_Witness ==
    /\ restResult.op = "PATCH"
    /\ restResult.status = "Forbidden"
    /\ FindById(restResult.messageId).senderId = restResult.user
    /\ clock - FindById(restResult.messageId).timestamp = fifteenMinutesInMs + 1
    /\ FindById(restResult.messageId).editedAt = NoDate

\* C29: a DELETE for a stored message by a user who is not its sender is rejected and
\* leaves the store as it was, whatever forAll is; a DELETE with forAll=true that
\* removes the message is made within 24 hours of its timestamp.
C29_DeleteOnlyOwn ==
    [][nreq' # nreq /\ restResult'.op = "DELETE" =>
          LET r == restResult'
              m == FindById(r.messageId)
          IN  /\ (m.state = "stored" /\ m.senderId # r.user) =>
                    /\ r.status \in Rejections
                    /\ messageStore' = messageStore
              /\ (r.forAll /\ messageStore' # messageStore) =>
                    clock - m.timestamp <= twentyFourHoursInMs]_vars

\* C27: no two private chats have the same pair of participants, whatever the order in
\* which the steps of the POST /api/chats requests are served.
C27_OneChatPerPair ==
    \A ch1 \in PChats, ch2 \in PChats :
        (ch1 # ch2 /\ participants[ch1] # {}) => participants[ch1] # participants[ch2]

\* C30: a register request with valid data for an email that an accepted register
\* request has named before (its registration is pending, or its user exists) is
\* answered with BadRequest, status 400.
C30_DuplicateEmailRejected ==
    [][(/\ nauth' # nauth
        /\ authResult'.op = "register"
        /\ ValidateEmail(authResult'.email)
        /\ ValidatePassword(authResult'.password)
        /\ \/ registrations[ToLowerCase(authResult'.email)] # NoRegistration
           \/ ToLowerCase(authResult'.email) \in userEmails)
          => authResult'.status = "BadRequest"]_vars

\* C31: a login with a well-formed email of no user is answered NotFound (404), one
\* with the email of a user and a wrong password Unauthorized (401), and neither
\* changes a status or the token store.
C31_LoginRejections ==
    [][(/\ nsess' # nsess
        /\ sessResult'.op = "login"
        /\ sessResult'.user # "undefined" /\ sessResult'.password # "undefined"
        /\ ValidateEmail(NormalizedEmail(sessResult'.user))) =>
          /\ NormalizedEmail(sessResult'.user) \notin userEmails =>
                /\ sessResult'.status = "NotFound"
                /\ UNCHANGED <<tokenStore, onlineStatus>>
          /\ (NormalizedEmail(sessResult'.user) \in userEmails
              /\ ~ComparePassword(sessResult'.password)) =>
                /\ sessResult'.status = "Unauthorized"
                /\ UNCHANGED <<tokenStore, onlineStatus>>]_vars

\* C32: a refresh with a validly signed, unexpired token of an existing user is
\* answered OK (200) with a new access token; one with an invalid token is answered
\* Unauthorized (401).
C32_RefreshBySignature ==
    [][(nsess' # nsess /\ sessResult'.op = "refresh" /\ sessResult'.token # NoToken) =>
          IF sessResult'.token.sig = "valid" /\ sessResult'.token.user \in userEmails
          THEN sessResult'.status = "OK" /\ sessResult'.accessToken
          ELSE sessResult'.token.sig = "invalid" => sessResult'.status = "Unauthorized"]_vars

C33_OnlySelectedChat ==
    selectedChatId # 0 => \A i \in 1..Len(messages) : messages[i].chatId = selectedChatId

\* C34: the unread counter of a chat counts each message of another sender once,
\* however often its 'message:new' is delivered.
C34_UnreadOncePerMessage ==
    \A c \in ChatIds :
        unread[c] <= Cardinality({i \in 1..Len(serverMsgs) :
                                     serverMsgs[i].chatId = c /\ serverMsgs[i].senderId # Me})

\* C35: an inbound event calls each registered handler of its kind exactly once.
C35_HandlersFireOnce ==
    invoked.handlers # {} => invoked.times = 1

\* C36: the step that ends a send in failure removes the entry with the temporary id
\* of that send and leaves the other entries as they were, in their order; and the
\* list holds an entry with a temporary id only while the send of that id is in flight.
C36_FailedSendRemovesTemp ==
    [][/\ \A k \in 1..MaxMsgs :
             (sends[k].stage \in {"posted", "stored"} /\ sends'[k].stage = "rejected") =>
                LET id == TempId(sends[k].tempId)
                    Before(i) == Cardinality({j \in 1..(i - 1) : messages[j].id = id})
                IN  /\ ~Has(messages', id)
                    /\ Len(messages') = Len(messages) - Before(Len(messages) + 1)
                    /\ \A i \in 1..Len(messages) :
                          messages[i].id # id => messages'[i - Before(i)] = messages[i]
       /\ \A i \in 1..Len(messages') :
             messages'[i].id[1] = "temp" =>
                \E k \in 1..MaxMsgs : /\ sends'[k].stage \in {"posted", "stored"}
                                      /\ TempId(sends'[k].tempId) = messages'[i].id]_vars

\* a send has failed, its entry is gone and a message delivered meanwhile has stayed
C36_Witness ==
    /\ \E k \in 1..MaxMsgs : sends[k].stage = "rejected"
    /\ Len(messages) = 1
    /\ messages[1].id[1] = "msg"
    /\ ~isSending

\* C37: every 'user:typing' the composer emits for a chat is eventually followed by a
\* 'user:stop-typing' for that chat.
C37_TypingEventuallyStopped ==
    \A c \in ChatIds : (c \in owed) ~> (c \notin owed)

\* C38: the status of a feedback request moves one way under PATCH requests: once it
\* has left 'pending' it is never 'pending' again; a request that is 'expired' stays
\* 'expired', and a request handled after its expiresAt takes no status other than
\* 'expired'; the status changes only in a request of the responder; respondedAt is
\* assigned only in a step that leaves the status 'responded'.
C38_StatusMonotonic ==
    [][feedbackStore.status # "none" =>
         /\ feedbackStore.status # "pending" => feedbackStore'.status # "pending"
         /\ feedbackStore.status = "expired" => feedbackStore'.status = "expired"
         /\ \A r \in PatchReqIds :
               (/\ patchReqs[r].stage = "saving"
                /\ patchReqs'[r].stage = "done"
                /\ patchReqs[r].at > feedbackStore.expiresAt)
                  => feedbackStore'.status \in {feedbackStore.status, "expired"}
         /\ feedbackStore'.status # feedbackStore.status
               => \E r \in PatchReqIds : /\ patchReqs[r].stage = "saving"
                                         /\ patchReqs'[r].stage = "done"
                                         /\ patchReqs[r].user = feedbackStore.responderId
         /\ feedbackStore'.respondedAt # feedbackStore.respondedAt
               => feedbackStore'.status = "responded"]_vars

====
